---- MODULE Spec2Model ----
(***************************************************************************)
(* Conversation checkpoint store of brantech-full-website:                 *)
(* ai_workflows/checkpointer.py (DjangoCheckpointer), ai_workflows/        *)
(* models.py (ConversationThread, ConversationCheckpoint) and the thread   *)
(* resolution of ai_workflows/views.py.                                    *)
(*                                                                         *)
(* The two tables are sets of rows with explicit primary keys, so that     *)
(* uniqueness of thread_id and of (thread, checkpoint_id) is something the *)
(* operations have to maintain.  Python None / a missing dict key is the   *)
(* value Absent.                                                           *)
(***************************************************************************)
EXTENDS Integers, Sequences, FiniteSets, TLC

VARIABLES
    threads,        \* rows of ConversationThread (committed)
    checkpoints,    \* rows of ConversationCheckpoint (committed)
    now,            \* the wall clock read by auto_now / auto_now_add
    nextThreadPk,   \* primary-key sequence of ConversationThread
    nextCpPk,       \* primary-key sequence of ConversationCheckpoint
    minted,         \* number of uuid4 tokens drawn so far
    last,           \* the last call: operation, arguments, result
    puts,           \* history: the put calls that were saved, oldest first
    session,        \* the Django session of the anonymous browser
    tx              \* per process: the put transaction it is running

storeVars == <<threads, checkpoints, now, nextThreadPk, nextCpPk, minted>>

vars == <<storeVars, last, puts, session, tx>>

----------------------------------------------------------------------------
\* Bounds of the model.

\* Number of clock readings by writing operations.
MaxClock == 3

\* Values.
Absent == "<absent>"
NoPk == 0
DefaultVersion == 1
DefaultWorkflow == "chatbot"
LegacyToolCallId == "legacy_missing_id"
UuidPool == <<"uuid-1", "uuid-2", "uuid-3", "uuid-4">>

----------------------------------------------------------------------------
\* Serializer: _to_jsonable.

\* A message is [form, type, content, tool_call_id]; form "object" is a
\* LangChain BaseMessage instance, form "dict" a plain mapping.  An object is
\* turned into a mapping; only a ToolMessage carries its tool_call_id over.
ToJsonableMsg(m) ==
    IF m.form = "object"
    THEN [form |-> "dict",
          type |-> m.type,
          content |-> m.content,
          tool_call_id |-> IF m.type = "tool" THEN m.tool_call_id ELSE Absent]
    ELSE m

\* A serializer that writes every scalar with repr(), quoting strings anew
\* each time.
ToJsonableAtomRepr(v) ==
    CASE v = "datetime(1)" -> "iso(1)"
      [] v = "object(X)"   -> "str(X)"
      [] OTHER             -> "'" \o v \o "'"

\* A scalar of a metadata mapping: a datetime becomes its isoformat string,
\* a value json.dumps rejects becomes str(value), anything else passes.
ToJsonableAtom(v) ==
    CASE v = "datetime(1)" -> "iso(1)"
      [] v = "object(X)"   -> "str(X)"
      [] OTHER             -> v

\* A mapping: key by key.
ToJsonableMap(md) == [k \in DOMAIN md |-> ToJsonableAtom(md[k])]

\* A checkpoint payload [id, checkpoint_id, parent_checkpoint_id, version,
\* messages]: the mapping recursed, messages (channel_values.messages)
\* element by element.
ToJsonable(cp) ==
    [cp EXCEPT !.messages = [i \in DOMAIN cp.messages |-> ToJsonableMsg(cp.messages[i])]]

\* dict(ChainMap): every key of any layer, with the value of the first layer
\* that has it.
DictOfChainMap(layers) ==
    [k \in UNION {DOMAIN layers[i] : i \in DOMAIN layers} |->
        LET first == CHOOSE i \in DOMAIN layers :
                        /\ k \in DOMAIN layers[i]
                        /\ \A j \in DOMAIN layers : k \in DOMAIN layers[j] => i <= j
        IN layers[first][k]]

\* _to_jsonable on any value.  A value carries the Python type the code
\* dispatches on: "message" (msg), "chainmap" (layers), "dict" (map),
\* "list" / "tuple" / "set" (items, in iteration order) and "atom" (val:
\* datetime, other scalar or opaque object).
RECURSIVE ToJsonableValue(_)
ToJsonableValue(x) ==
    CASE x.tag = "message"  -> [tag |-> "message", msg |-> ToJsonableMsg(x.msg)]
      [] x.tag = "chainmap" ->
            ToJsonableValue([tag |-> "dict", map |-> DictOfChainMap(x.layers)])
      [] x.tag = "dict"     ->
            [tag |-> "dict", map |-> [k \in DOMAIN x.map |-> ToJsonableValue(x.map[k])]]
      [] x.tag \in {"list", "tuple", "set"} ->
            [tag |-> "list", items |-> [i \in DOMAIN x.items |-> ToJsonableValue(x.items[i])]]
      [] x.tag = "atom"     -> [tag |-> "atom", val |-> ToJsonableAtom(x.val)]

----------------------------------------------------------------------------
\* Sanitizer: _sanitize_checkpoint_state.

NeedsPatch(m) == m.form = "dict" /\ m.type = "tool" /\ m.tool_call_id = Absent

\* A sanitizer that stamps every tool message, also one that has its id.
SanitizeMsgEveryTool(m) ==
    IF m.form = "dict" /\ m.type = "tool"
    THEN [m EXCEPT !.tool_call_id = LegacyToolCallId] ELSE m

SanitizeMsg(m) ==
    IF NeedsPatch(m) THEN [m EXCEPT !.tool_call_id = LegacyToolCallId] ELSE m

Sanitize(state) ==
    IF state.messages = <<>>
    THEN state
    ELSE [state EXCEPT !.messages = [i \in DOMAIN state.messages |-> SanitizeMsg(state.messages[i])]]

----------------------------------------------------------------------------
\* Small helpers standing for Python's truthiness, `or` and dict.update.

Falsy(x) == x = Absent \/ x = ""

Or(a, b) == IF Falsy(a) THEN b ELSE a

EmptyMap == <<>>

Values(f) == {f[k] : k \in DOMAIN f}

SetMax(S) == CHOOSE x \in S : \A y \in S : y <= x

\* dict.update: the keys of `upd` overwrite, all other keys stay.
DictUpdate(base, upd) ==
    [k \in DOMAIN base \cup DOMAIN upd |-> IF k \in DOMAIN upd THEN upd[k] ELSE base[k]]

\* A row written over the row with the same primary key.
SaveRow(rows, row) == {r \in rows : r.pk # row.pk} \cup {row}

----------------------------------------------------------------------------
\* Config accessors.  A config is
\* [thread_id, checkpoint_id, user_id, workflow_type, metadata].

GetUserId(cfg) == cfg.user_id

GetWorkflowType(cfg) ==
    IF cfg.workflow_type = Absent THEN DefaultWorkflow ELSE cfg.workflow_type

\* The token check dropped: every config passes.
ThreadIdNeverMissing(cfg) == FALSE

\* _get_thread_id raises ValueError exactly when the token is missing/empty.
ThreadIdMissing(cfg) == Falsy(cfg.thread_id)

\* _extract_checkpoint_id: payload id, else payload checkpoint_id, else the
\* configured id, else a newly minted uuid4.
ExtractCheckpointId(cp, cfg, fresh) ==
    IF ~Falsy(Or(cp.id, cp.checkpoint_id))
    THEN Or(cp.id, cp.checkpoint_id)
    ELSE Or(cfg.checkpoint_id, fresh)

MintsUuid(cp, cfg) ==
    Falsy(Or(cp.id, cp.checkpoint_id)) /\ Falsy(cfg.checkpoint_id)

\* _get_version: the payload's "version" key, default 1.  The payload's
\* version is {} when the key is missing and {v} when it is v.
GetVersion(cp) ==
    IF cp.version = {} THEN DefaultVersion ELSE CHOOSE v \in cp.version : TRUE

\* put with the new versions left out of the version it stores.
PutVersionPayloadOnly(cp, new_versions) == GetVersion(cp)

\* put, "Determine version": max of the new versions when there are any.
PutVersion(cp, new_versions) ==
    IF DOMAIN new_versions # {}
    THEN SetMax(Values(new_versions))
    ELSE GetVersion(cp)

----------------------------------------------------------------------------
\* Identity resolver: _get_or_create_thread, on tables given as values.

ThreadsByToken(ths, token) == {r \in ths : r.thread_id = token}

NewThread(pk, token, user, workflow, metadata, t) ==
    [pk |-> pk, thread_id |-> token, user |-> user, workflow_type |-> workflow,
     metadata |-> metadata, created_at |-> t, updated_at |-> t, is_active |-> TRUE]

\* The owner overwritten whenever the call carries one.
AttachUserAlways(thread, user_id) ==
    IF ~Falsy(user_id) THEN [thread EXCEPT !.user = user_id] ELSE thread

\* "Attach user if thread was anonymous and we now have one".
AttachUser(thread, user_id) ==
    IF ~Falsy(user_id) /\ thread.user = Absent
    THEN [thread EXCEPT !.user = user_id]
    ELSE thread

\* The stored mapping replaced by the supplied one.
MergeMetadataReplace(thread, metadata) ==
    IF DOMAIN metadata # {}
    THEN [thread EXCEPT !.metadata = ToJsonableMap(metadata)]
    ELSE thread

\* "Merge metadata if provided".
MergeMetadata(thread, metadata) ==
    IF DOMAIN metadata # {}
    THEN [thread EXCEPT !.metadata = DictUpdate(thread.metadata, ToJsonableMap(metadata))]
    ELSE thread

\* Result: the thread table afterwards, the thread object, and `created`.
GetOrCreateThread(ths, cfg, pk, t) ==
    LET found == ThreadsByToken(ths, cfg.thread_id) IN
    IF found = {}
    THEN LET row == NewThread(pk, cfg.thread_id, GetUserId(cfg), GetWorkflowType(cfg),
                              ToJsonableMap(cfg.metadata), t)
         IN [threads |-> ths \cup {row}, thread |-> row, created |-> TRUE]
    ELSE LET row == CHOOSE r \in found : TRUE
             upd == MergeMetadata(AttachUser(row, GetUserId(cfg)), cfg.metadata)
         IN [threads |-> SaveRow(ths, upd), thread |-> upd, created |-> FALSE]

----------------------------------------------------------------------------
\* Checkpoint table primitives used by put.

CheckpointsOf(cps, thread_pk) == {r \in cps : r.thread = thread_pk}

CheckpointsByKey(cps, thread_pk, cid) ==
    {r \in cps : r.thread = thread_pk /\ r.checkpoint_id = cid}

\* A parent lookup by checkpoint id alone, in whatever thread.
ParentLookupAnyThread(cps, thread_pk, parent_id) ==
    IF Falsy(parent_id) \/ {r \in cps : r.checkpoint_id = parent_id} = {}
    THEN NoPk
    ELSE (CHOOSE r \in {q \in cps : q.checkpoint_id = parent_id} : TRUE).pk

\* "Get parent checkpoint if exists": the primary key of the parent row in the
\* same thread, NoPk when none is referenced or none is found.
ParentLookup(cps, thread_pk, parent_id) ==
    IF Falsy(parent_id) \/ CheckpointsByKey(cps, thread_pk, parent_id) = {}
    THEN NoPk
    ELSE (CHOOSE r \in CheckpointsByKey(cps, thread_pk, parent_id) : TRUE).pk

\* update_or_create replaced by create: a plain insert whatever exists.
UpdateOrCreateAlwaysInsert(cps, thread_pk, cid, defaults, pk, t) ==
    cps \cup {[pk |-> pk, thread |-> thread_pk, checkpoint_id |-> cid,
               parent |-> defaults.parent, state |-> defaults.state,
               checkpoint_metadata |-> defaults.checkpoint_metadata,
               version |-> defaults.version, created_at |-> t]}

\* created_at kept with auto_now: every save of the row stamps it anew.
UpdateOrCreateAutoNow(cps, thread_pk, cid, defaults, pk, t) ==
    LET found == CheckpointsByKey(cps, thread_pk, cid) IN
    IF found = {}
    THEN cps \cup {[pk |-> pk, thread |-> thread_pk, checkpoint_id |-> cid,
                    parent |-> defaults.parent, state |-> defaults.state,
                    checkpoint_metadata |-> defaults.checkpoint_metadata,
                    version |-> defaults.version, created_at |-> t]}
    ELSE LET row == CHOOSE r \in found : TRUE IN
         SaveRow(cps, [row EXCEPT !.parent = defaults.parent,
                                  !.state = defaults.state,
                                  !.checkpoint_metadata = defaults.checkpoint_metadata,
                                  !.version = defaults.version,
                                  !.created_at = t])

\* ConversationCheckpoint.objects.update_or_create(thread=, checkpoint_id=,
\* defaults=): an existing row gets the defaults and keeps pk and created_at;
\* otherwise a row is inserted with created_at = the clock (auto_now_add).
UpdateOrCreate(cps, thread_pk, cid, defaults, pk, t) ==
    LET found == CheckpointsByKey(cps, thread_pk, cid) IN
    IF found = {}
    THEN cps \cup {[pk |-> pk, thread |-> thread_pk, checkpoint_id |-> cid,
                    parent |-> defaults.parent, state |-> defaults.state,
                    checkpoint_metadata |-> defaults.checkpoint_metadata,
                    version |-> defaults.version, created_at |-> t]}
    ELSE LET row == CHOOSE r \in found : TRUE IN
         SaveRow(cps, [row EXCEPT !.parent = defaults.parent,
                                  !.state = defaults.state,
                                  !.checkpoint_metadata = defaults.checkpoint_metadata,
                                  !.version = defaults.version])

\* "Update thread updated_at": thread.updated_at = now; thread.save().
TouchThread(ths, thread, t) == SaveRow(ths, [thread EXCEPT !.updated_at = t])

\* The CheckpointTuple returned by put and by the read paths.
Tuple(state, cid, metadata) ==
    [kind |-> "tuple", checkpoint |-> [state EXCEPT !.id = cid], metadata |-> metadata]

----------------------------------------------------------------------------
\* DjangoCheckpointer.put on tables given as values: the thread table and the
\* checkpoint table afterwards, the returned tuple, and what was created.
\* `tpk`, `cpk` are the next primary keys, `t` the clock, `fresh` the uuid4
\* that would be minted.
PutOutcome(ths, cps, cfg, cp, md, new_versions, tpk, cpk, t, fresh) ==
    LET g        == GetOrCreateThread(ths, cfg, tpk, t)
        cid      == ExtractCheckpointId(cp, cfg, fresh)
        parent   == ParentLookup(cps, g.thread.pk, cp.parent_checkpoint_id)
        version  == PutVersion(cp, new_versions)
        state    == ToJsonable(cp)
        metadata == ToJsonableMap(md)
        defaults == [parent |-> parent, state |-> state,
                     checkpoint_metadata |-> metadata, version |-> version]
    IN [threads        |-> TouchThread(g.threads, g.thread, t),
        checkpoints    |-> UpdateOrCreate(cps, g.thread.pk, cid, defaults, cpk, t),
        result         |-> Tuple(state, cid, metadata),
        cid            |-> cid,
        thread_pk      |-> g.thread.pk,
        thread_created |-> g.created,
        cp_created     |-> CheckpointsByKey(cps, g.thread.pk, cid) = {}]

----------------------------------------------------------------------------
\* Read paths, on tables given as values.

\* order_by('created_at').first(): the oldest rows.
EarliestRows(rows) == {r \in rows : \A q \in rows : r.created_at <= q.created_at}

\* order_by('-created_at').first(): the rows a "latest" query may return.
LatestRows(rows) == {r \in rows : \A q \in rows : q.created_at <= r.created_at}

\* The thread lookup of the read paths: _get_thread_id, then
\* ConversationThread.objects.get(thread_id=).  `raised` is the exception.
ReadThread(ths, cfg) ==
    IF ThreadIdMissing(cfg)
    THEN [raised |-> "ValueError"]
    ELSE IF ThreadsByToken(ths, cfg.thread_id) = {}
         THEN [raised |-> "DoesNotExist"]
         ELSE [raised |-> "none", thread |-> CHOOSE r \in ThreadsByToken(ths, cfg.thread_id) : TRUE]

\* The exceptions get_tuple catches around its lookups, and those list catches.
\* get_tuple without its handler for a thread that does not exist.
GetTupleCatchesOnlyValueError == {"ValueError"}

GetTupleCatches == {"ValueError", "DoesNotExist"}

ListCatches == {"ValueError", "DoesNotExist"}

NoneResult == [kind |-> "absent"]

Raised(exc) == [kind |-> "error", error |-> exc]

\* The rows get_tuple may build its answer from once the thread is found: the
\* row with the requested id, else the latest; {} makes it return None.
GetTupleRows(cps, thread_pk, cfg) ==
    IF ~Falsy(cfg.checkpoint_id)
    THEN CheckpointsByKey(cps, thread_pk, cfg.checkpoint_id)
    ELSE LatestRows(CheckpointsOf(cps, thread_pk))

\* The tuple built without the sanitizer.
RowTupleUnsanitized(row) == Tuple(row.state, row.checkpoint_id, row.checkpoint_metadata)

RowTuple(row) == Tuple(Sanitize(row.state), row.checkpoint_id, row.checkpoint_metadata)

\* The answers get_tuple can give.
GetTupleOutcomes(ths, cps, cfg) ==
    LET rt == ReadThread(ths, cfg) IN
    IF rt.raised # "none"
    THEN {IF rt.raised \in GetTupleCatches THEN NoneResult ELSE Raised(rt.raised)}
    ELSE IF GetTupleRows(cps, rt.thread.pk, cfg) = {}
         THEN {NoneResult}
         ELSE {RowTuple(row) : row \in GetTupleRows(cps, rt.thread.pk, cfg)}

\* list(): `before` is [kind, t]: kind "none" (not given), "iso" (a timestamp
\* datetime.fromisoformat accepts, worth clock value t) or "malformed".
BeforeGiven(before) == before.kind # "none"

\* A parser that takes any text for a timestamp.
BeforeAlwaysParses(before) == TRUE

BeforeParses(before) == before.kind = "iso"

\* filter is a mapping or absent; only its "version" key is looked at.
FilterHasVersion(filter) == "version" \in DOMAIN filter

ListRows(cps, thread_pk, filter, before) ==
    {r \in CheckpointsOf(cps, thread_pk) :
        /\ (BeforeGiven(before) /\ BeforeParses(before)) => r.created_at < before.t
        /\ FilterHasVersion(filter) => r.version = filter["version"]}

\* order_by('-created_at') as a sequence, newest first.
RECURSIVE OrderByCreatedDesc(_)
OrderByCreatedDesc(rows) ==
    IF rows = {}
    THEN <<>>
    ELSE LET top == CHOOSE r \in LatestRows(rows) : TRUE IN
         <<top>> \o OrderByCreatedDesc(rows \ {top})

\* queryset[:limit] when limit is truthy; limit is {} (None) or {n}.
ApplyLimit(rowseq, limit) ==
    LET n == IF limit = {} THEN 0 ELSE CHOOSE x \in limit : TRUE IN
    IF n # 0 /\ n < Len(rowseq) THEN SubSeq(rowseq, 1, n) ELSE rowseq

ListOutcome(ths, cps, cfg, filter, before, limit) ==
    LET rt == ReadThread(ths, cfg) IN
    IF rt.raised # "none"
    THEN IF rt.raised \in ListCatches
         THEN [kind |-> "list", items |-> <<>>]
         ELSE Raised(rt.raised)
    ELSE LET rowseq == ApplyLimit(OrderByCreatedDesc(
                           ListRows(cps, rt.thread.pk, filter, before)), limit)
         IN [kind |-> "list", items |-> [i \in DOMAIN rowseq |-> RowTuple(rowseq[i])]]

----------------------------------------------------------------------------
\* Inputs of the store operations.

HumanObj   == [form |-> "object", type |-> "human", content |-> "hi", tool_call_id |-> Absent]
ToolObj    == [form |-> "object", type |-> "tool", content |-> "rows", tool_call_id |-> "call-1"]
LegacyTool == [form |-> "dict", type |-> "tool", content |-> "rows", tool_call_id |-> Absent]

Cfg(token) ==
    [thread_id |-> token, checkpoint_id |-> Absent, user_id |-> Absent,
     workflow_type |-> Absent, metadata |-> EmptyMap]

Payload(id) ==
    [id |-> id, checkpoint_id |-> Absent, parent_checkpoint_id |-> Absent,
     version |-> {}, messages |-> <<>>]

PutArgs(cfg, cp, md, nv) == [cfg |-> cfg, cp |-> cp, md |-> md, nv |-> nv]

\* Keys: two threads, two ids.
PutInputsKeys ==
    { PutArgs(Cfg("t1"), Payload("c1"), EmptyMap, EmptyMap),
      PutArgs(Cfg("t1"), Payload("c2"), EmptyMap, EmptyMap),
      PutArgs(Cfg("t2"), Payload("c1"), EmptyMap, EmptyMap) }

\* Versions and parents.
PutInputsVersions ==
    { PutArgs(Cfg("t1"), Payload("c1"), EmptyMap, "messages" :> 3),
      PutArgs(Cfg("t1"), [Payload("c2") EXCEPT !.parent_checkpoint_id = "c1"],
              EmptyMap, "messages" :> 4),
      PutArgs(Cfg("t1"), [Payload("c1") EXCEPT !.version = {2}, !.messages = <<ToolObj>>],
              "source" :> "datetime(1)", EmptyMap),
      PutArgs(Cfg("t1"), [Payload("c2") EXCEPT !.parent_checkpoint_id = "c9",
                                               !.messages = <<HumanObj, LegacyTool>>],
              "source" :> "loop", ("messages" :> 3) @@ ("branch" :> 5)),
      PutArgs(Cfg("t2"), [Payload("c2") EXCEPT !.parent_checkpoint_id = "c1"],
              EmptyMap, EmptyMap) }

\* Where the checkpoint id comes from.
PutInputsIds ==
    { PutArgs(Cfg("t1"), [Payload(Absent) EXCEPT !.checkpoint_id = "c2"], EmptyMap, EmptyMap),
      PutArgs([Cfg("t1") EXCEPT !.checkpoint_id = "c1"], Payload(Absent), EmptyMap, EmptyMap),
      PutArgs(Cfg("t1"), Payload(Absent), EmptyMap, EmptyMap) }

\* Thread token missing; owner; thread metadata.
PutInputsThread ==
    { PutArgs(Cfg(Absent), Payload("c1"), EmptyMap, EmptyMap),
      PutArgs(Cfg(""), Payload(Absent), EmptyMap, EmptyMap),
      PutArgs([Cfg("t1") EXCEPT !.user_id = "u1"], Payload("c1"), EmptyMap, EmptyMap),
      PutArgs([Cfg("t1") EXCEPT !.user_id = "u2", !.metadata = "lang" :> "en"],
              Payload("c1"), EmptyMap, EmptyMap) }

PutInputs == PutInputsKeys \cup PutInputsVersions \cup PutInputsIds \cup PutInputsThread

GetConfigs ==
    {[Cfg(tok) EXCEPT !.checkpoint_id = cid] : tok \in {Absent, "t1"}, cid \in {Absent, "c1", "c2"}}
    \cup {Cfg("t2")}

Befores == {[kind |-> "none", t |-> 0], [kind |-> "malformed", t |-> 0], [kind |-> "iso", t |-> 2]}

Filters == {EmptyMap, "version" :> 3, "source" :> 3}

Limits == {{}, {1}}

----------------------------------------------------------------------------
\* Concurrent callers: each process runs put as one database transaction
\* (@transaction.atomic) against PostgreSQL at READ COMMITTED.

Procs == {"p1", "p2"}

NoThread == NewThread(NoPk, Absent, Absent, Absent, EmptyMap, 0)

NoArgs == PutArgs(Cfg(Absent), Payload(Absent), EmptyMap, EmptyMap)

\* A process that is not inside put.  pc: the statement it is about to run;
\* thread, created, parent: put's local variables; wthreads, wcps: rows it
\* wrote and has not committed; locks: the rows and unique keys it holds;
\* touched: the updated_at it assigned; wrote_threads, wrote_cps: every row
\* it wrote so far.
IdleTx ==
    [pc |-> "idle", args |-> NoArgs, thread |-> NoThread, created |-> FALSE,
     parent |-> NoPk, cp_created |-> FALSE, wthreads |-> {}, wcps |-> {},
     locks |-> {}, touched |-> 0, wrote_threads |-> {}, wrote_cps |-> {}]

----------------------------------------------------------------------------
\* The store's operations as actions of a single caller.

Init ==
    /\ threads = {}
    /\ checkpoints = {}
    /\ now = 1
    /\ nextThreadPk = 1
    /\ nextCpPk = 1
    /\ minted = 0
    /\ last = [op |-> "init"]
    /\ puts = <<>>
    /\ session = [chat_thread_id |-> Absent, chat_messages |-> <<>>]
    /\ tx = [p \in Procs |-> IdleTx]

\* put(config, checkpoint, metadata, new_versions).
Put(a) ==
    IF ThreadIdMissing(a.cfg)
    THEN /\ last' = [op |-> "put", args |-> a, result |-> Raised("ValueError")]
         /\ UNCHANGED <<storeVars, puts, session, tx>>
    ELSE /\ now <= MaxClock
         /\ MintsUuid(a.cp, a.cfg) => minted < Len(UuidPool)
         /\ LET fresh == IF minted < Len(UuidPool) THEN UuidPool[minted + 1] ELSE Absent
                o == PutOutcome(threads, checkpoints, a.cfg, a.cp, a.md, a.nv,
                                nextThreadPk, nextCpPk, now, fresh)
            IN /\ threads' = o.threads
               /\ checkpoints' = o.checkpoints
               /\ nextThreadPk' = IF o.thread_created THEN nextThreadPk + 1 ELSE nextThreadPk
               /\ nextCpPk' = IF o.cp_created THEN nextCpPk + 1 ELSE nextCpPk
               /\ minted' = IF MintsUuid(a.cp, a.cfg) THEN minted + 1 ELSE minted
               /\ now' = now + 1
               /\ last' = [op |-> "put", args |-> a, result |-> o.result]
               /\ puts' = Append(puts, [args |-> a, cid |-> o.cid,
                                        cp_created |-> o.cp_created])
               /\ UNCHANGED <<session, tx>>

\* A get_tuple that writes the patched state back to the rows it read.
GetTupleSavingPatch(cfg) ==
    /\ \E res \in GetTupleOutcomes(threads, checkpoints, cfg) :
          last' = [op |-> "get_tuple", cfg |-> cfg, result |-> res]
    /\ checkpoints' = {[r EXCEPT !.state = Sanitize(r.state)] : r \in checkpoints}
    /\ UNCHANGED <<threads, now, nextThreadPk, nextCpPk, minted, puts, session, tx>>

\* get_tuple(config); get(config) is the same call.
GetTuple(cfg) ==
    /\ \E res \in GetTupleOutcomes(threads, checkpoints, cfg) :
          last' = [op |-> "get_tuple", cfg |-> cfg, result |-> res]
    /\ UNCHANGED <<storeVars, puts, session, tx>>

\* list(config, filter, before, limit).
List(cfg, filter, before, limit) ==
    /\ last' = [op |-> "list", cfg |-> cfg, filter |-> filter, before |-> before,
                limit |-> limit,
                result |-> ListOutcome(threads, checkpoints, cfg, filter, before, limit)]
    /\ UNCHANGED <<storeVars, puts, session, tx>>

Next ==
    \/ \E a \in PutInputs : Put(a)
    \/ \E cfg \in GetConfigs : GetTuple(cfg)
    \/ \E tok \in {Absent, "t1"} : List(Cfg(tok), EmptyMap, [kind |-> "none", t |-> 0], {})

Spec == Init /\ [][Next]_vars

\* The same store with few kinds of put and every kind of list.
NextList ==
    \/ \E a \in PutInputsVersions : Put(a)
    \/ \E tok \in {Absent, "t1", "t2"}, f \in Filters, b \in Befores, l \in Limits :
          List(Cfg(tok), f, b, l)

SpecList == Init /\ [][NextList]_vars

----------------------------------------------------------------------------
\* HTTP layer: thread resolution of chat_endpoint and chat_history
\* (ai_workflows/views.py) and the ChatAssistant they call (service.py).

SessionKeep == 20

Apology == "I apologize, but I encountered an error processing your message. Please try again."

\* Contents that hold one of get_history's error indicators
\* ("error searching", "quota exceeded", ...), compared lower-cased.
NoiseContents == {"429 RESOURCE_EXHAUSTED: Quota exceeded", "Error searching blog posts"}

\* Authenticated request that names a thread: link the thread to the caller
\* if it is not the caller's, or create it for the caller.
LinkOrCreateThread(ths, token, user, pk, t) ==
    LET found == ThreadsByToken(ths, token) IN
    IF found = {}
    THEN [threads |-> ths \cup {NewThread(pk, token, user, DefaultWorkflow, EmptyMap, t)},
          created |-> TRUE, wrote |-> TRUE]
    ELSE LET row == CHOOSE r \in found : TRUE IN
         IF row.user # user
         THEN [threads |-> SaveRow(ths, [row EXCEPT !.user = user, !.updated_at = t]),
               created |-> FALSE, wrote |-> TRUE]
         ELSE [threads |-> ths, created |-> FALSE, wrote |-> FALSE]

\* The caller's chatbot threads.
ChatbotThreadsOf(ths, user) ==
    {r \in ths : r.user = user /\ r.workflow_type = DefaultWorkflow}

\* chat_endpoint, "Get or create thread_id".  `fresh` is the token that would
\* be minted.  raised = "none" or the exception the lookup ends with.
ResolveSendThread(ths, sess, user, token, pk, t, fresh) ==
    IF user # Absent
    THEN IF ~Falsy(token)
         THEN LET l == LinkOrCreateThread(ths, token, user, pk, t) IN
              [raised |-> "none", threads |-> l.threads, thread_id |-> token,
               session |-> sess, created |-> l.created, wrote |-> l.wrote, minted |-> FALSE]
         ELSE LET mine == ChatbotThreadsOf(ths, user) IN
              IF mine = {}
              THEN [raised |-> "none",
                    threads |-> ths \cup {NewThread(pk, fresh, user, DefaultWorkflow, EmptyMap, t)},
                    thread_id |-> fresh, session |-> sess,
                    created |-> TRUE, wrote |-> TRUE, minted |-> TRUE]
              ELSE IF Cardinality(mine) = 1
                   THEN [raised |-> "none", threads |-> ths,
                         thread_id |-> (CHOOSE r \in mine : TRUE).thread_id,
                         session |-> sess, created |-> FALSE, wrote |-> FALSE, minted |-> FALSE]
                   ELSE [raised |-> "MultipleObjectsReturned", threads |-> ths,
                         thread_id |-> Absent, session |-> sess,
                         created |-> FALSE, wrote |-> FALSE, minted |-> FALSE]
    ELSE IF sess.chat_thread_id = Absent
         THEN [raised |-> "none", threads |-> ths, thread_id |-> fresh,
               session |-> [sess EXCEPT !.chat_thread_id = fresh],
               created |-> FALSE, wrote |-> FALSE, minted |-> TRUE]
         ELSE [raised |-> "none", threads |-> ths, thread_id |-> sess.chat_thread_id,
               session |-> sess, created |-> FALSE, wrote |-> FALSE, minted |-> FALSE]

\* chat_history, the same for a history request: the most recently updated
\* chatbot thread of the caller when none is named.
ResolveHistoryThread(ths, sess, user, token, pk, t, fresh) ==
    IF user # Absent
    THEN IF ~Falsy(token)
         THEN LET l == LinkOrCreateThread(ths, token, user, pk, t) IN
              [threads |-> l.threads, thread_id |-> token, session |-> sess,
               created |-> l.created, wrote |-> l.wrote, minted |-> FALSE]
         ELSE LET mine == ChatbotThreadsOf(ths, user) IN
              IF mine = {}
              THEN [threads |-> ths, thread_id |-> fresh, session |-> sess,
                    created |-> FALSE, wrote |-> FALSE, minted |-> TRUE]
              ELSE [threads |-> ths,
                    thread_id |-> (CHOOSE r \in mine :
                                     \A q \in mine : q.updated_at <= r.updated_at).thread_id,
                    session |-> sess, created |-> FALSE, wrote |-> FALSE, minted |-> FALSE]
    ELSE IF ~Falsy(token)
         THEN [threads |-> ths, thread_id |-> token, session |-> sess,
               created |-> FALSE, wrote |-> FALSE, minted |-> FALSE]
         ELSE IF sess.chat_thread_id = Absent
              THEN [threads |-> ths, thread_id |-> fresh,
                    session |-> [sess EXCEPT !.chat_thread_id = fresh],
                    created |-> FALSE, wrote |-> FALSE, minted |-> TRUE]
              ELSE [threads |-> ths, thread_id |-> sess.chat_thread_id, session |-> sess,
                    created |-> FALSE, wrote |-> FALSE, minted |-> FALSE]

\* ChatAssistant.__init__: the config handed to the checkpointer.
AssistantConfig(token, user) == [Cfg(token) EXCEPT !.user_id = user, !.workflow_type = DefaultWorkflow]

\* ChatAssistant.get_history on the tuple get_tuple returned: role and content
\* of every message with content that is not an error indicator.
\* Unrecognised type tags attributed to the assistant.
ProjectRoleDefaultAssistant(m) == IF m.type \in {"human", "user"} THEN "user" ELSE "assistant"

ProjectRole(m) == IF m.type \in {"ai", "assistant"} THEN "assistant" ELSE "user"

\* The characters of the message texts used here, so that lower-casing and
\* substring search are computed on them.
Chars(s) ==
    CASE s = "hi" ->
           <<"h", "i">>
      [] s = "hello" ->
           <<"h", "e", "l", "l", "o">>
      [] s = "hello!" ->
           <<"h", "e", "l", "l", "o", "!">>
      [] s = "rows" ->
           <<"r", "o", "w", "s">>
      [] s = "content='hi'" ->
           <<"c", "o", "n", "t", "e", "n", "t", "=", "'", "h", "i", "'">>
      [] s = "429 RESOURCE_EXHAUSTED: Quota exceeded" ->
           <<"4", "2", "9", " ", "R", "E", "S", "O", "U", "R", "C", "E", "_", "E", "X", "H", "A", "U", "S", "T", "E", "D", ":", " ", "Q", "u", "o", "t", "a", " ", "e", "x", "c", "e", "e", "d", "e", "d">>
      [] s = "Error searching blog posts" ->
           <<"E", "r", "r", "o", "r", " ", "s", "e", "a", "r", "c", "h", "i", "n", "g", " ", "b", "l", "o", "g", " ", "p", "o", "s", "t", "s">>
      [] s = "Error embedding query" ->
           <<"E", "r", "r", "o", "r", " ", "e", "m", "b", "e", "d", "d", "i", "n", "g", " ", "q", "u", "e", "r", "y">>
      [] s = "QUOTA EXCEEDED, retry later" ->
           <<"Q", "U", "O", "T", "A", " ", "E", "X", "C", "E", "E", "D", "E", "D", ",", " ", "r", "e", "t", "r", "y", " ", "l", "a", "t", "e", "r">>
      [] s = "Tool failed. Error: timeout" ->
           <<"T", "o", "o", "l", " ", "f", "a", "i", "l", "e", "d", ".", " ", "E", "r", "r", "o", "r", ":", " ", "t", "i", "m", "e", "o", "u", "t">>
      [] s = "No errors found" ->
           <<"N", "o", " ", "e", "r", "r", "o", "r", "s", " ", "f", "o", "u", "n", "d">>
      [] s = Apology ->
           <<"I", " ", "a", "p", "o", "l", "o", "g", "i", "z", "e", ",", " ", "b", "u", "t", " ", "I", " ", "e", "n", "c", "o", "u", "n", "t", "e", "r", "e", "d", " ", "a", "n", " ", "e", "r", "r", "o", "r", " ", "p", "r", "o", "c", "e", "s", "s", "i", "n", "g", " ", "y", "o", "u", "r", " ", "m", "e", "s", "s", "a", "g", "e", ".", " ", "P", "l", "e", "a", "s", "e", " ", "t", "r", "y", " ", "a", "g", "a", "i", "n", ".">>

UpperToLower ==
    "A" :> "a" @@ "B" :> "b" @@ "C" :> "c" @@ "D" :> "d" @@ "E" :> "e" @@
    "F" :> "f" @@ "G" :> "g" @@ "H" :> "h" @@ "I" :> "i" @@ "J" :> "j" @@
    "K" :> "k" @@ "L" :> "l" @@ "M" :> "m" @@ "N" :> "n" @@ "O" :> "o" @@
    "P" :> "p" @@ "Q" :> "q" @@ "R" :> "r" @@ "S" :> "s" @@ "T" :> "t" @@
    "U" :> "u" @@ "V" :> "v" @@ "W" :> "w" @@ "X" :> "x" @@ "Y" :> "y" @@
    "Z" :> "z"

\* str.lower() on a text given by its characters.
Lower(cs) == [i \in DOMAIN cs |-> IF cs[i] \in DOMAIN UpperToLower THEN UpperToLower[cs[i]] ELSE cs[i]]

\* `ps in cs` for texts given by their characters.
Contains(cs, ps) ==
    \E i \in 1..(Len(cs) - Len(ps) + 1) : SubSeq(cs, i, i + Len(ps) - 1) = ps

\* The indicators get_history searches the lower-cased content for.
NoiseIndicators ==
    { <<"e", "r", "r", "o", "r", " ", "s", "e", "a", "r", "c", "h", "i", "n", "g">>,
      <<"e", "r", "r", "o", "r", " ", "e", "m", "b", "e", "d", "d", "i", "n", "g">>,
      <<"r", "e", "s", "o", "u", "r", "c", "e", "_", "e", "x", "h", "a", "u", "s", "t", "e", "d">>,
      <<"4", "2", "9", " ", "r", "e", "s", "o", "u", "r", "c", "e", "_", "e", "x", "h", "a", "u", "s", "t", "e", "d">>,
      <<"q", "u", "o", "t", "a", " ", "e", "x", "c", "e", "e", "d", "e", "d">>,
      <<"e", "r", "r", "o", "r", ":">> }

IsNoise(content) == \E ind \in NoiseIndicators : Contains(Lower(Chars(content)), ind)

\* A projection that searches the content as it is written.
ProjectKeepsCaseSensitive(m) ==
    /\ m.content # Absent /\ m.content # ""
    /\ ~\E ind \in NoiseIndicators : Contains(Chars(m.content), ind)

ProjectKeeps(m) == m.content # Absent /\ m.content # "" /\ ~IsNoise(m.content)

RECURSIVE Project(_)
Project(msgs) ==
    IF msgs = <<>>
    THEN <<>>
    ELSE LET m == Head(msgs) IN
         (IF ProjectKeeps(m) THEN <<[role |-> ProjectRole(m), content |-> m.content]>> ELSE <<>>)
         \o Project(Tail(msgs))

GetHistory(ths, cps, cfg) ==
    LET res == CHOOSE r \in GetTupleOutcomes(ths, cps, cfg) : TRUE IN
    IF res.kind = "tuple" THEN Project(res.checkpoint.messages) ELSE <<>>

\* A session list that keeps its first 20 entries.
SessionAppendKeepsOldest(msgs, message, response) ==
    LET all == msgs \o <<[role |-> "user", content |-> message],
                         [role |-> "assistant", content |-> response]>>
    IN IF Len(all) > SessionKeep
       THEN SubSeq(all, 1, SessionKeep)
       ELSE all

\* request.session['chat_messages'] after one exchange: the two entries
\* appended, the last 20 kept.
SessionAppend(msgs, message, response) ==
    LET all == msgs \o <<[role |-> "user", content |-> message],
                         [role |-> "assistant", content |-> response]>>
    IN IF Len(all) > SessionKeep
       THEN SubSeq(all, Len(all) - SessionKeep + 1, Len(all))
       ELSE all

----------------------------------------------------------------------------
\* The HTTP handlers as actions.

Http(status, thread_id, response) ==
    [kind |-> "http", status |-> status, thread_id |-> thread_id, response |-> response]

\* What the agent run of one turn hands to put: a new checkpoint id, the
\* previous checkpoint as parent, the history so far plus the exchange.
AgentPayload(prev, id, message, reply) ==
    [Payload(id) EXCEPT
        !.parent_checkpoint_id = IF prev.kind = "tuple" THEN prev.checkpoint.id ELSE Absent,
        !.messages = (IF prev.kind = "tuple" THEN prev.checkpoint.messages ELSE <<>>)
                     \o <<[form |-> "object", type |-> "human", content |-> message,
                           tool_call_id |-> Absent],
                          [form |-> "object", type |-> "ai", content |-> reply,
                           tool_call_id |-> Absent]>>]

\* A send_message that files its apology as the reply of the turn.
SendMessageStoringApology(ths, cfg, message, agent_ok, reply, tpk, uuid) ==
    LET prev == CHOOSE x \in GetTupleOutcomes(ths, checkpoints, cfg) : TRUE
        said == IF agent_ok THEN reply ELSE Apology
        a    == PutArgs(cfg, AgentPayload(prev, uuid, message, said),
                        "source" :> "loop", EmptyMap)
        o    == PutOutcome(ths, checkpoints, a.cfg, a.cp, a.md, a.nv,
                           tpk, nextCpPk, now, Absent)
    IN [wrote |-> TRUE, args |-> a, o |-> o, response |-> said]

\* ChatAssistant.send_message: the agent run reads the latest checkpoint and
\* puts the next one; a run that raises is answered with the apology by the
\* except block, which calls nothing.
SendMessage(ths, cfg, message, agent_ok, reply, tpk, uuid) ==
    LET prev == CHOOSE x \in GetTupleOutcomes(ths, checkpoints, cfg) : TRUE
        a    == PutArgs(cfg, AgentPayload(prev, uuid, message, reply),
                        "source" :> "loop", EmptyMap)
        o    == PutOutcome(ths, checkpoints, a.cfg, a.cp, a.md, a.nv,
                           tpk, nextCpPk, now, Absent)
    IN [wrote |-> agent_ok, args |-> a, o |-> o,
        response |-> IF agent_ok THEN reply ELSE Apology]

\* POST chat_endpoint by `user` (Absent: anonymous) with body thread_id
\* `token` and `message`; `agent_ok` is whether the agent run succeeds.
ChatSend(user, token, message, agent_ok, reply) ==
    IF Falsy(message)
    THEN /\ last' = [op |-> "chat_send", user |-> user, thread_id |-> token,
                     message |-> message,
                     result |-> Http(400, Absent, "Message is required")]
         /\ UNCHANGED <<storeVars, puts, session, tx>>
    ELSE /\ now <= MaxClock
         /\ minted + 2 <= Len(UuidPool)
         /\ LET r == ResolveSendThread(threads, session, user, token, nextThreadPk, now,
                                       UuidPool[minted + 1])
            IN IF r.raised # "none"
               THEN /\ last' = [op |-> "chat_send", user |-> user, thread_id |-> token,
                                message |-> message,
                                result |-> Http(500, Absent, r.raised)]
                    /\ UNCHANGED <<storeVars, puts, session, tx>>
               ELSE LET tpk   == IF r.created THEN nextThreadPk + 1 ELSE nextThreadPk
                        used  == IF r.minted THEN minted + 1 ELSE minted
                        cfg   == AssistantConfig(r.thread_id, user)
                        sent  == SendMessage(r.threads, cfg, message, agent_ok, reply,
                                             tpk, UuidPool[used + 1])
                        a     == sent.args
                        o     == sent.o
                        said  == sent.response
                    IN /\ threads' = IF sent.wrote THEN o.threads ELSE r.threads
                       /\ checkpoints' = IF sent.wrote THEN o.checkpoints ELSE checkpoints
                       /\ nextThreadPk' = IF sent.wrote /\ o.thread_created THEN tpk + 1 ELSE tpk
                       /\ nextCpPk' = IF sent.wrote THEN nextCpPk + 1 ELSE nextCpPk
                       /\ minted' = IF sent.wrote THEN used + 1 ELSE used
                       /\ now' = now + 1
                       /\ puts' = IF sent.wrote
                                  THEN Append(puts, [args |-> a, cid |-> o.cid,
                                                     cp_created |-> o.cp_created])
                                  ELSE puts
                       /\ session' = IF user = Absent
                                     THEN [r.session EXCEPT !.chat_messages =
                                              SessionAppend(r.session.chat_messages, message, said)]
                                     ELSE r.session
                       /\ last' = [op |-> "chat_send", user |-> user, thread_id |-> token,
                                   message |-> message,
                                   result |-> Http(200, r.thread_id, said)]
                       /\ UNCHANGED tx

\* GET chat_history by `user` with query thread_id `token`.
ChatHistory(user, token) ==
    /\ minted < Len(UuidPool)
    /\ LET r == ResolveHistoryThread(threads, session, user, token, nextThreadPk, now,
                                     UuidPool[minted + 1])
       IN /\ r.wrote => now <= MaxClock
          /\ threads' = r.threads
          /\ nextThreadPk' = IF r.created THEN nextThreadPk + 1 ELSE nextThreadPk
          /\ minted' = IF r.minted THEN minted + 1 ELSE minted
          /\ now' = IF r.wrote THEN now + 1 ELSE now
          /\ session' = r.session
          /\ last' = [op |-> "chat_history", user |-> user, thread_id |-> token,
                      result |-> [kind |-> "history", thread_id |-> r.thread_id,
                                  messages |-> GetHistory(r.threads, checkpoints,
                                                          AssistantConfig(r.thread_id, user))]]
          /\ UNCHANGED <<checkpoints, nextCpPk, puts, tx>>

Users == {"u1", "u2"}

\* Puts on one thread that differ in the owner id they carry.
PutInputsOwner ==
    {PutArgs([Cfg("t1") EXCEPT !.user_id = u], Payload("c1"), EmptyMap, EmptyMap) :
        u \in Users \cup {Absent}}

\* Reads of a thread that may exist without checkpoints.
GetConfigsChat == {Cfg(Absent), Cfg("t1"), [Cfg("t1") EXCEPT !.checkpoint_id = "c2"]}

\* Requests to chat_endpoint: each user naming thread t1, one user naming
\* none, an anonymous visitor, a failing agent run, a request without message.
SendInputs ==
    {[user |-> u, token |-> "t1", message |-> "hello", agent_ok |-> TRUE] : u \in Users}
    \cup {[user |-> "u1", token |-> Absent, message |-> "hello", agent_ok |-> TRUE],
          [user |-> Absent, token |-> Absent, message |-> "hello", agent_ok |-> TRUE],
          [user |-> "u1", token |-> "t1", message |-> "hello", agent_ok |-> FALSE],
          [user |-> Absent, token |-> Absent, message |-> Absent, agent_ok |-> TRUE]}

\* Requests to chat_history.
HistoryInputs ==
    {[user |-> u, token |-> "t1"] : u \in Users}
    \cup {[user |-> u, token |-> Absent] : u \in {"u1", Absent}}

NextChat ==
    \/ \E i \in SendInputs : ChatSend(i.user, i.token, i.message, i.agent_ok, "hello!")
    \/ \E i \in HistoryInputs : ChatHistory(i.user, i.token)
    \/ \E a \in PutInputsOwner : Put(a)
    \/ \E cfg \in GetConfigsChat : GetTuple(cfg)
    \/ \E tok \in {Absent, "t1"} : List(Cfg(tok), EmptyMap, [kind |-> "none", t |-> 0], {})

SpecChat == Init /\ [][NextChat]_vars

----------------------------------------------------------------------------
\* Deletion: clear_chat_history (ai_workflows/views.py) and the on_delete
\* rules of the models.

\* Deleting threads without the cascade to their checkpoints.
DeleteThreadsNoCascade(ths, cps, doomed) ==
    [threads |-> ths \ doomed, checkpoints |-> cps]

\* QuerySet.delete() / Model.delete() of thread rows: their checkpoints go
\* with them (on_delete=CASCADE), and a parent reference to a deleted
\* checkpoint is cleared (on_delete=SET_NULL).
DeleteThreads(ths, cps, doomed) ==
    LET gone == {r \in cps : \E th \in doomed : th.pk = r.thread}
    IN [threads |-> ths \ doomed,
        checkpoints |-> {IF \E g \in gone : g.pk = r.parent
                         THEN [r EXCEPT !.parent = NoPk] ELSE r : r \in cps \ gone}]

\* The threads an authenticated clear request deletes: the named thread if
\* it is the caller's, or all chatbot threads of the caller.
ClearTargets(ths, user, token) ==
    IF ~Falsy(token)
    THEN {r \in ths : r.thread_id = token /\ r.user = user}
    ELSE ChatbotThreadsOf(ths, user)

\* POST clear_chat_history by `user` (Absent: anonymous) with body thread_id
\* `token`.
ClearHistory(user, token) ==
    IF user # Absent
    THEN LET doomed == ClearTargets(threads, user, token)
             d      == DeleteThreads(threads, checkpoints, doomed)
         IN IF ~Falsy(token) /\ doomed = {}
            THEN /\ last' = [op |-> "clear", user |-> user, thread_id |-> token,
                             result |-> Http(404, Absent, "Thread not found")]
                 /\ UNCHANGED <<storeVars, puts, session, tx>>
            ELSE /\ threads' = d.threads
                 /\ checkpoints' = d.checkpoints
                 /\ last' = [op |-> "clear", user |-> user, thread_id |-> token,
                             result |-> Http(200, Absent, "success")]
                 /\ UNCHANGED <<now, nextThreadPk, nextCpPk, minted, puts, session, tx>>
    ELSE /\ session' = [chat_thread_id |-> Absent, chat_messages |-> <<>>]
         /\ last' = [op |-> "clear", user |-> user, thread_id |-> token,
                     result |-> Http(200, Absent, "success")]
         /\ UNCHANGED <<storeVars, puts, tx>>

\* Deleting checkpoint rows with their children left pointing at them.
DeleteCheckpointsKeepRefs(cps, gone) == cps \ gone

\* Model.delete() of checkpoint rows: a parent reference to a deleted row is
\* cleared (parent_checkpoint is on_delete=SET_NULL).
DeleteCheckpoints(cps, gone) ==
    {IF \E g \in gone : g.pk = r.parent THEN [r EXCEPT !.parent = NoPk] ELSE r :
        r \in cps \ gone}

\* The admin site (ConversationCheckpointAdmin) deletes the checkpoint `cid`
\* of thread `token`.
AdminDeleteCheckpoint(token, cid) ==
    LET gone == {r \in checkpoints :
                    /\ r.checkpoint_id = cid
                    /\ \E th \in ThreadsByToken(threads, token) : th.pk = r.thread}
    IN /\ gone # {}
       /\ checkpoints' = DeleteCheckpoints(checkpoints, gone)
       /\ last' = [op |-> "delete_checkpoint", thread_id |-> token, checkpoint_id |-> cid,
                   pks |-> {g.pk : g \in gone}]
       /\ UNCHANGED <<threads, now, nextThreadPk, nextCpPk, minted, puts, session, tx>>

\* Puts that leave one user with a chatbot thread of two checkpoints and a
\* thread of another workflow, and another user's put on the same token.
PutInputsClear ==
    {PutArgs([Cfg("t1") EXCEPT !.user_id = u], Payload("c1"), EmptyMap, EmptyMap) :
        u \in Users \cup {Absent}}
    \cup {PutArgs([Cfg("t1") EXCEPT !.user_id = "u1"],
                  [Payload("c2") EXCEPT !.parent_checkpoint_id = "c1"], EmptyMap, EmptyMap),
          PutArgs([Cfg("t2") EXCEPT !.user_id = "u1", !.workflow_type = "content"],
                  Payload("c1"), EmptyMap, EmptyMap),
          PutArgs([Cfg("t3") EXCEPT !.user_id = "u1"], Payload("c1"), EmptyMap, EmptyMap)}

NextClear ==
    \/ \E a \in PutInputsClear : Put(a)
    \/ \E user \in Users \cup {Absent}, token \in {Absent, "t1"} : ClearHistory(user, token)
    \/ \E cid \in {"c1", "c2"} : AdminDeleteCheckpoint("t1", cid)
    \/ \E tok \in {"t1", "t3"} : GetTuple(Cfg(tok))
    \/ List(Cfg("t1"), EmptyMap, [kind |-> "none", t |-> 0], {})

SpecClear == Init /\ [][NextClear]_vars

----------------------------------------------------------------------------
\* The pure functions called on their own: _sanitize_checkpoint_state on
\* states as they come out of the JSON column.

\* Longest message list tried.
MaxMessages == 3

\* Messages of a stored state: mappings with a type, with or without
\* tool_call_id, and a message kept as a plain string.
StoredMsgs ==
    { [form |-> "dict", type |-> "tool", content |-> "rows", tool_call_id |-> Absent],
      [form |-> "dict", type |-> "tool", content |-> "rows", tool_call_id |-> "call-1"],
      [form |-> "dict", type |-> "human", content |-> "hi", tool_call_id |-> Absent],
      [form |-> "dict", type |-> "ai", content |-> "hello!", tool_call_id |-> Absent],
      [form |-> "str", type |-> Absent, content |-> "content='hi'", tool_call_id |-> Absent] }

SanitizeInputs ==
    {[Payload("c1") EXCEPT !.messages = ms] :
        ms \in UNION {[1..k -> StoredMsgs] : k \in 0..MaxMessages}}

\* `modified`: whether _sanitize_checkpoint_state builds a new state instead
\* of returning the one it was given.
SanitizeCopies(state) == \E i \in DOMAIN state.messages : NeedsPatch(state.messages[i])

\* _sanitize_checkpoint_state(state), and the same applied to its result.
SanitizeCall(state) ==
    /\ last' = [op |-> "sanitize", arg |-> state, result |-> Sanitize(state),
                copied |-> SanitizeCopies(state), again |-> Sanitize(Sanitize(state))]
    /\ UNCHANGED <<storeVars, puts, session, tx>>

\* Longest raw message list handed to the history projection.
MaxHistory == 2

\* Messages of a raw state as get_history meets them: conversation turns,
\* an empty one, tool failures in several spellings, and a reply that
\* mentions errors without being one.
HistoryMsgs ==
    { [form |-> "dict", type |-> "human", content |-> "hi", tool_call_id |-> Absent],
      [form |-> "dict", type |-> "ai", content |-> "hello!", tool_call_id |-> Absent],
      [form |-> "dict", type |-> "ai", content |-> "", tool_call_id |-> Absent],
      [form |-> "dict", type |-> "ai", content |-> "No errors found", tool_call_id |-> Absent],
      [form |-> "dict", type |-> "ai", content |-> "QUOTA EXCEEDED, retry later",
       tool_call_id |-> Absent],
      [form |-> "dict", type |-> "tool", content |-> "Tool failed. Error: timeout",
       tool_call_id |-> "call-1"] }
    \cup {[form |-> "dict", type |-> "tool", content |-> c, tool_call_id |-> "call-1"] :
            c \in NoiseContents}

HistoryInputsRaw == UNION {[1..k -> HistoryMsgs] : k \in 0..MaxHistory}

\* The loop of get_history over the messages of the checkpoint it read.
ProjectCall(msgs) ==
    /\ last' = [op |-> "project", arg |-> msgs, result |-> Project(msgs)]
    /\ UNCHANGED <<storeVars, puts, session, tx>>

\* Longest list, tuple or set handed to _to_jsonable.
MaxItems == 2

\* Scalars: a string, None, a datetime, an object json.dumps rejects.
Atoms == {[tag |-> "atom", val |-> v] : v \in {"text", "None", "datetime(1)", "object(X)"}}

Collections ==
    {[tag |-> t, items |-> xs] :
        t \in {"list", "tuple", "set"},
        xs \in UNION {[1..k -> Atoms] : k \in 0..MaxItems}}

Messages == {[tag |-> "message", msg |-> m] : m \in {HumanObj, ToolObj, LegacyTool}}

\* Plain and layered mappings whose values are scalars, collections and
\* messages; the layers of the ChainMap disagree on one key.
Mappings ==
    LET stamp  == [tag |-> "atom", val |-> "datetime(1)"]
        opaque == [tag |-> "atom", val |-> "object(X)"]
        text   == [tag |-> "atom", val |-> "text"]
        pair   == [tag |-> "tuple", items |-> <<stamp, opaque>>]
        msgs   == [tag |-> "list",
                   items |-> <<[tag |-> "message", msg |-> HumanObj],
                               [tag |-> "message", msg |-> ToolObj]>>]
    IN { [tag |-> "dict", map |-> EmptyMap],
         [tag |-> "dict", map |-> ("ts" :> stamp) @@ ("writes" :> pair)],
         [tag |-> "dict", map |-> ("messages" :> msgs) @@ ("source" :> text)],
         [tag |-> "dict",
          map |-> "channel_values" :> [tag |-> "dict", map |-> "messages" :> msgs]],
         [tag |-> "chainmap", layers |-> <<("source" :> text), ("source" :> opaque) @@ ("ts" :> stamp)>>],
         [tag |-> "chainmap", layers |-> <<("writes" :> pair), EmptyMap>>] }

JsonableInputs == Atoms \cup Collections \cup Messages \cup Mappings

\* _to_jsonable(x), and the same applied to its result.
ToJsonableCall(x) ==
    /\ last' = [op |-> "to_jsonable", arg |-> x, result |-> ToJsonableValue(x),
                again |-> ToJsonableValue(ToJsonableValue(x))]
    /\ UNCHANGED <<storeVars, puts, session, tx>>

NextPure ==
    \/ \E state \in SanitizeInputs : SanitizeCall(state)
    \/ \E msgs \in HistoryInputsRaw : ProjectCall(msgs)
    \/ \E x \in JsonableInputs : ToJsonableCall(x)

SpecPure == Init /\ [][NextPure]_vars

----------------------------------------------------------------------------
\* Puts that name parents: a checkpoint naming itself, two checkpoints
\* naming each other, and a parent id that exists only in another thread.

PutInputsParents ==
    { PutArgs(Cfg("t1"), Payload("c1"), EmptyMap, EmptyMap),
      PutArgs(Cfg("t1"), [Payload("c1") EXCEPT !.parent_checkpoint_id = "c1"],
              EmptyMap, EmptyMap),
      PutArgs(Cfg("t1"), [Payload("c2") EXCEPT !.parent_checkpoint_id = "c1"],
              EmptyMap, EmptyMap),
      PutArgs(Cfg("t1"), [Payload("c1") EXCEPT !.parent_checkpoint_id = "c2"],
              EmptyMap, EmptyMap),
      PutArgs(Cfg("t2"), [Payload("c2") EXCEPT !.parent_checkpoint_id = "c1"],
              EmptyMap, EmptyMap),
      PutArgs(Cfg("t2"), [Payload("c3") EXCEPT !.parent_checkpoint_id = "c2"],
              EmptyMap, EmptyMap) }

NextParents ==
    \/ \E a \in PutInputsParents : Put(a)
    \/ \E tok \in {"t1", "t2"} : GetTuple(Cfg(tok))

SpecParents == Init /\ [][NextParents]_vars

----------------------------------------------------------------------------
\* list with a limit given, zero included.

LimitsGiven == {{0}, {1}, {2}}

NextLimit ==
    \/ \E a \in PutInputsVersions : Put(a)
    \/ \E f \in {EmptyMap, "version" :> 3}, l \in LimitsGiven :
          List(Cfg("t1"), f, [kind |-> "none", t |-> 0], l)

SpecLimit == Init /\ [][NextLimit]_vars

----------------------------------------------------------------------------
\* Puts that carry thread metadata: none, one key, the same key with another
\* value, another key, two keys of which one is a datetime.

PutInputsMetadata ==
    {PutArgs([Cfg("t1") EXCEPT !.metadata = md], Payload("c1"), EmptyMap, EmptyMap) :
        md \in {EmptyMap,
                "lang" :> "en",
                "lang" :> "fr",
                "plan" :> "pro",
                ("lang" :> "en") @@ ("seen" :> "datetime(1)")}}
    \cup {PutArgs([Cfg("t2") EXCEPT !.metadata = "plan" :> "free"], Payload("c1"),
                  EmptyMap, EmptyMap)}

NextMetadata ==
    \/ \E a \in PutInputsMetadata : Put(a)

SpecMetadata == Init /\ [][NextMetadata]_vars

----------------------------------------------------------------------------
\* get_history read against stored checkpoints whose messages carry every
\* kind of type tag, an empty content and a tool failure.

PutInputsHistory ==
    LET ai(c)      == [form |-> "object", type |-> "ai", content |-> c, tool_call_id |-> Absent]
        tagged(ty, c) == [form |-> "dict", type |-> ty, content |-> c, tool_call_id |-> Absent]
        failed     == [form |-> "object", type |-> "tool",
                       content |-> "Error searching blog posts", tool_call_id |-> "call-1"]
    IN { PutArgs(Cfg("t1"), [Payload("c1") EXCEPT
                    !.messages = <<HumanObj, ai(""), failed, ai("hello!")>>],
                 EmptyMap, EmptyMap),
         PutArgs(Cfg("t1"), [Payload("c1") EXCEPT
                    !.messages = <<tagged("user", "hello"), tagged("assistant", "hello!"),
                                   tagged("system", "No errors found")>>],
                 EmptyMap, EmptyMap),
         PutArgs(Cfg("t1"), [Payload("c2") EXCEPT
                    !.messages = <<HumanObj, ai("hello!"), ToolObj, tagged("function", "rows"),
                                   ai("hello!")>>],
                 EmptyMap, EmptyMap),
         PutArgs(Cfg("t1"), [Payload("c3") EXCEPT !.messages = <<failed, ai("")>>],
                 EmptyMap, EmptyMap),
         PutArgs(Cfg("t2"), [Payload("c1") EXCEPT !.messages = <<ai("hello!"), HumanObj>>],
                 EmptyMap, EmptyMap) }

\* ChatAssistant(thread_id=tok).get_history().
GetHistoryCall(tok) ==
    /\ last' = [op |-> "get_history", thread_id |-> tok,
                result |-> GetHistory(threads, checkpoints, AssistantConfig(tok, Absent))]
    /\ UNCHANGED <<storeVars, puts, session, tx>>

NextHistory ==
    \/ \E a \in PutInputsHistory : Put(a)
    \/ \E tok \in {"t1", "t2"} : GetHistoryCall(tok)

SpecHistory == Init /\ [][NextHistory]_vars

----------------------------------------------------------------------------
\* The checkpointer as an instance: DjangoCheckpointer(thread_id) keeps the
\* thread_id it was constructed with, and its methods resolve the thread
\* token of each call.

\* The instance's thread_id taken whenever the config has none.
ResolveTokenWithDefault(own, cfg) == IF Falsy(cfg.thread_id) THEN own ELSE cfg.thread_id

\* The token a method of an instance constructed with `own` works with:
\* _get_thread_id reads config["configurable"]["thread_id"] and nothing else.
ResolveToken(own, cfg) == cfg.thread_id

CheckpointerPut(own, a) == Put([a EXCEPT !.cfg.thread_id = ResolveToken(own, a.cfg)])

CheckpointerGetTuple(own, cfg) == GetTuple([cfg EXCEPT !.thread_id = ResolveToken(own, cfg)])

CheckpointerList(own, cfg) ==
    List([cfg EXCEPT !.thread_id = ResolveToken(own, cfg)], EmptyMap,
         [kind |-> "none", t |-> 0], {})

\* The thread_ids instances are constructed with.
OwnTokens == {"t1", "t2"}

\* Configs with and without a token.
ConfigsOwn == {Cfg(Absent), Cfg(""), Cfg("t1"), Cfg("t2")}

PutInputsOwn ==
    {PutArgs(cfg, Payload(id), EmptyMap, EmptyMap) : cfg \in ConfigsOwn, id \in {"c1", "c2"}}

NextOwn ==
    \/ \E own \in OwnTokens, a \in PutInputsOwn : CheckpointerPut(own, a)
    \/ \E own \in OwnTokens, cfg \in ConfigsOwn : CheckpointerGetTuple(own, cfg)
    \/ \E own \in OwnTokens, cfg \in ConfigsOwn : CheckpointerList(own, cfg)

SpecOwn == Init /\ [][NextOwn]_vars

----------------------------------------------------------------------------
\* The anonymous visitor's session over many exchanges.

\* Exchanges an anonymous session may already hold: their agent runs
\* failed, so each left the visitor's message and the apology in the
\* session and nothing in the database.
SeedExchanges == 9

RECURSIVE SessionAfter(_)
SessionAfter(n) ==
    IF n = 0 THEN <<>> ELSE SessionAppend(SessionAfter(n - 1), "hi", Apology)

InitSession ==
    /\ threads = {}
    /\ checkpoints = {}
    /\ now = 1
    /\ nextThreadPk = 1
    /\ nextCpPk = 1
    /\ minted = 0
    /\ last = [op |-> "init"]
    /\ puts = <<>>
    /\ \E n \in {0, SeedExchanges} :
          session = [chat_thread_id |-> IF n = 0 THEN Absent ELSE "anon-0",
                     chat_messages |-> SessionAfter(n)]
    /\ tx = [p \in Procs |-> IdleTx]

\* Anonymous requests: two messages, the agent run succeeding or failing,
\* and a request without message.
SessionInputs ==
    {[message |-> m, agent_ok |-> ok] : m \in {"hello", "hi"}, ok \in BOOLEAN}
    \cup {[message |-> Absent, agent_ok |-> TRUE]}

NextSession ==
    \E i \in SessionInputs : ChatSend(Absent, Absent, i.message, i.agent_ok, "hello!")

SpecSession == InitSession /\ [][NextSession]_vars

----------------------------------------------------------------------------
\* put, statement by statement, for concurrent callers.

\* @transaction.atomic on put: its writes reach the tables at commit.
PutIsNotAtomic == FALSE

PutIsAtomic == TRUE

\* The rows and unique keys a transaction locks.
ThreadKey(token) == [table |-> "thread", token |-> token, cid |-> Absent]

CpKey(token, cid) == [table |-> "checkpoint", token |-> token, cid |-> cid]

HeldByOthers(p) == UNION {tx[q].locks : q \in Procs \ {p}}

\* Committed rows overlaid with the rows a transaction wrote itself.
Overlay(rows, written) == {r \in rows : \A w \in written : w.pk # r.pk} \cup written

ViewThreads(p) == Overlay(threads, tx[p].wthreads)

ViewCps(p) == Overlay(checkpoints, tx[p].wcps)

\* The current version of the thread row the process works on.
CurThread(p) == CHOOSE r \in ViewThreads(p) : r.pk = tx[p].thread.pk

TxnCid(p) == ExtractCheckpointId(tx[p].args.cp, tx[p].args.cfg, Absent)

\* Whether the statement at pc writes the thread row.
Attaches(p) ==
    /\ ~tx[p].created
    /\ ~Falsy(GetUserId(tx[p].args.cfg))
    /\ tx[p].thread.user = Absent

Merges(p) == ~tx[p].created /\ DOMAIN tx[p].args.cfg.metadata # {}

\* The locks taken if thread_id had no unique index: an insert of a thread
\* waits for nothing.
NeedsWithoutUniqueThreadId(p) ==
    LET tok == tx[p].args.cfg.thread_id IN
    CASE tx[p].pc = "attach" -> IF Attaches(p) THEN {ThreadKey(tok)} ELSE {}
      [] tx[p].pc = "merge"  -> IF Merges(p) THEN {ThreadKey(tok)} ELSE {}
      [] tx[p].pc = "upsert" -> {CpKey(tok, TxnCid(p))}
      [] tx[p].pc = "touch"  -> {ThreadKey(tok)}
      [] OTHER -> {}

\* The locks the statement at pc has to take.
Needs(p) ==
    LET tok == tx[p].args.cfg.thread_id IN
    CASE tx[p].pc = "thread" ->
            IF ThreadsByToken(ViewThreads(p), tok) = {} THEN {ThreadKey(tok)} ELSE {}
      [] tx[p].pc = "attach" -> IF Attaches(p) THEN {ThreadKey(tok)} ELSE {}
      [] tx[p].pc = "merge"  -> IF Merges(p) THEN {ThreadKey(tok)} ELSE {}
      [] tx[p].pc = "upsert" -> {CpKey(tok, TxnCid(p))}
      [] tx[p].pc = "touch"  -> {ThreadKey(tok)}
      [] OTHER -> {}

Blocked(p) == Needs(p) \cap HeldByOthers(p) # {}

\* The process after a statement that wrote thread rows `wt` and checkpoint
\* rows `wc`, and the tables: untouched within a transaction, written at
\* once without one.
Statement(p, next, wt, wc) ==
    LET n == [next EXCEPT !.wthreads = Overlay(tx[p].wthreads, wt),
                          !.wcps = Overlay(tx[p].wcps, wc),
                          !.locks = tx[p].locks \cup Needs(p),
                          !.wrote_threads = tx[p].wrote_threads \cup wt,
                          !.wrote_cps = tx[p].wrote_cps \cup wc]
    IN IF PutIsAtomic
       THEN /\ tx' = [tx EXCEPT ![p] = n]
            /\ UNCHANGED <<threads, checkpoints>>
       ELSE /\ tx' = [tx EXCEPT ![p] = [n EXCEPT !.wthreads = {}, !.wcps = {}, !.locks = {}]]
            /\ threads' = Overlay(threads, wt)
            /\ checkpoints' = Overlay(checkpoints, wc)

\* put is entered: _get_thread_id raises before any statement.
TxnBegin(p, a) ==
    /\ tx[p].pc = "idle"
    /\ IF ThreadIdMissing(a.cfg)
       THEN /\ tx' = [tx EXCEPT ![p] = [IdleTx EXCEPT !.pc = "failed", !.args = a]]
            /\ last' = [op |-> "put", args |-> a, result |-> Raised("ValueError")]
       ELSE /\ tx' = [tx EXCEPT ![p] = [IdleTx EXCEPT !.pc = "thread", !.args = a]]
            /\ UNCHANGED last
    /\ UNCHANGED <<storeVars, puts, session>>

\* ConversationThread.objects.get_or_create(thread_id=, defaults=).  An
\* insert waits for an uncommitted insert of the same thread_id; when that
\* one has committed the row is found instead.
TxnThread(p) ==
    /\ tx[p].pc = "thread"
    /\ ~Blocked(p)
    /\ LET cfg   == tx[p].args.cfg
           found == ThreadsByToken(ViewThreads(p), cfg.thread_id)
       IN IF found = {}
          THEN LET row == NewThread(nextThreadPk, cfg.thread_id, GetUserId(cfg),
                                    GetWorkflowType(cfg), ToJsonableMap(cfg.metadata), now)
               IN /\ Statement(p, [tx[p] EXCEPT !.pc = "attach", !.thread = row,
                                                !.created = TRUE], {row}, {})
                  /\ nextThreadPk' = nextThreadPk + 1
                  /\ now' = now + 1
          ELSE /\ Statement(p, [tx[p] EXCEPT !.pc = "attach",
                                             !.thread = CHOOSE r \in found : TRUE,
                                             !.created = FALSE], {}, {})
               /\ UNCHANGED <<nextThreadPk, now>>
    /\ UNCHANGED <<nextCpPk, minted, last, puts, session>>

\* thread.user_id = user_id; thread.save(update_fields=["user_id"]).
TxnAttach(p) ==
    /\ tx[p].pc = "attach"
    /\ ~Blocked(p)
    /\ IF Attaches(p)
       THEN LET obj == AttachUser(tx[p].thread, GetUserId(tx[p].args.cfg))
                row == [CurThread(p) EXCEPT !.user = obj.user]
            IN Statement(p, [tx[p] EXCEPT !.pc = "merge", !.thread = obj], {row}, {})
       ELSE Statement(p, [tx[p] EXCEPT !.pc = "merge"], {}, {})
    /\ UNCHANGED <<now, nextThreadPk, nextCpPk, minted, last, puts, session>>

\* thread.metadata.update(safe_metadata); thread.save(update_fields=["metadata"]).
TxnMerge(p) ==
    /\ tx[p].pc = "merge"
    /\ ~Blocked(p)
    /\ IF Merges(p)
       THEN LET obj == MergeMetadata(tx[p].thread, tx[p].args.cfg.metadata)
                row == [CurThread(p) EXCEPT !.metadata = obj.metadata]
            IN Statement(p, [tx[p] EXCEPT !.pc = "parent", !.thread = obj], {row}, {})
       ELSE Statement(p, [tx[p] EXCEPT !.pc = "parent"], {}, {})
    /\ UNCHANGED <<now, nextThreadPk, nextCpPk, minted, last, puts, session>>

\* "Get parent checkpoint if exists".
TxnParent(p) ==
    /\ tx[p].pc = "parent"
    /\ Statement(p, [tx[p] EXCEPT !.pc = "upsert",
                                  !.parent = ParentLookup(ViewCps(p), tx[p].thread.pk,
                                                 tx[p].args.cp.parent_checkpoint_id)],
                 {}, {})
    /\ UNCHANGED <<now, nextThreadPk, nextCpPk, minted, last, puts, session>>

\* update_or_create: SELECT ... FOR UPDATE of the row, then UPDATE or INSERT.
\* It waits while another transaction holds the row or the key.
TxnUpsert(p) ==
    /\ tx[p].pc = "upsert"
    /\ ~Blocked(p)
    /\ LET a        == tx[p].args
           cid      == TxnCid(p)
           view     == ViewCps(p)
           created  == CheckpointsByKey(view, tx[p].thread.pk, cid) = {}
           defaults == [parent |-> tx[p].parent, state |-> ToJsonable(a.cp),
                        checkpoint_metadata |-> ToJsonableMap(a.md),
                        version |-> PutVersion(a.cp, a.nv)]
           after    == UpdateOrCreate(view, tx[p].thread.pk, cid, defaults, nextCpPk, now)
           row      == CHOOSE r \in CheckpointsByKey(after, tx[p].thread.pk, cid) : TRUE
       IN /\ Statement(p, [tx[p] EXCEPT !.pc = "touch", !.cp_created = created], {}, {row})
          /\ nextCpPk' = IF created THEN nextCpPk + 1 ELSE nextCpPk
          /\ now' = IF created THEN now + 1 ELSE now
    /\ UNCHANGED <<nextThreadPk, minted, last, puts, session>>

\* thread.updated_at = timezone.now(); thread.save(): every column is written
\* from the thread object the transaction holds.
TxnTouch(p) ==
    /\ tx[p].pc = "touch"
    /\ ~Blocked(p)
    /\ LET row == CHOOSE r \in TouchThread(ViewThreads(p), tx[p].thread, now) :
                     r.pk = tx[p].thread.pk
       IN Statement(p, [tx[p] EXCEPT !.pc = "commit", !.thread = row, !.touched = now],
                    {row}, {})
    /\ now' = now + 1
    /\ UNCHANGED <<nextThreadPk, nextCpPk, minted, last, puts, session>>

\* The transaction of a process closed: nothing pending, no lock.
Closed(p, pc) == [tx[p] EXCEPT !.pc = pc, !.wthreads = {}, !.wcps = {}, !.locks = {}]

\* put returns: the transaction commits.
TxnCommit(p) ==
    /\ tx[p].pc = "commit"
    /\ threads' = Overlay(threads, tx[p].wthreads)
    /\ checkpoints' = Overlay(checkpoints, tx[p].wcps)
    /\ tx' = [tx EXCEPT ![p] = Closed(p, "done")]
    /\ puts' = Append(puts, [args |-> tx[p].args, cid |-> TxnCid(p),
                             cp_created |-> tx[p].cp_created])
    /\ last' = [op |-> "put", args |-> tx[p].args,
                result |-> Tuple(ToJsonable(tx[p].args.cp), TxnCid(p),
                                 ToJsonableMap(tx[p].args.md))]
    /\ UNCHANGED <<now, nextThreadPk, nextCpPk, minted, session>>

Running == {"thread", "attach", "merge", "parent", "upsert", "touch", "commit"}

\* An exception or a crash inside put: the transaction is rolled back.
TxnFail(p) ==
    /\ tx[p].pc \in Running
    /\ tx' = [tx EXCEPT ![p] = Closed(p, "failed")]
    /\ last' = [op |-> "put", args |-> tx[p].args, result |-> Raised("Exception")]
    /\ UNCHANGED <<storeVars, puts, session>>

\* Two transactions wait for a lock of each other: PostgreSQL aborts one, and
\* its put raises OperationalError (deadlock detected).
Deadlocked(p) ==
    \E q \in Procs \ {p} :
        /\ Needs(p) \cap tx[q].locks # {}
        /\ Needs(q) \cap tx[p].locks # {}

TxnDeadlock(p) ==
    /\ tx[p].pc \in Running
    /\ Deadlocked(p)
    /\ tx' = [tx EXCEPT ![p] = Closed(p, "deadlock")]
    /\ last' = [op |-> "put", args |-> tx[p].args, result |-> Raised("OperationalError")]
    /\ UNCHANGED <<storeVars, puts, session>>

\* The store after the puts of `seq`, one after the other, on an empty store.
RECURSIVE StoreAfter(_)
StoreAfter(seq) ==
    IF seq = <<>>
    THEN [threads |-> {}, checkpoints |-> {}, now |-> 1, nextThreadPk |-> 1,
          nextCpPk |-> 1, puts |-> <<>>]
    ELSE LET s == StoreAfter(SubSeq(seq, 1, Len(seq) - 1))
             a == seq[Len(seq)]
             o == PutOutcome(s.threads, s.checkpoints, a.cfg, a.cp, a.md, a.nv,
                             s.nextThreadPk, s.nextCpPk, s.now, Absent)
         IN [threads |-> o.threads, checkpoints |-> o.checkpoints, now |-> s.now + 1,
             nextThreadPk |-> IF o.thread_created THEN s.nextThreadPk + 1
                              ELSE s.nextThreadPk,
             nextCpPk |-> IF o.cp_created THEN s.nextCpPk + 1 ELSE s.nextCpPk,
             puts |-> Append(s.puts, [args |-> a, cid |-> o.cid,
                                      cp_created |-> o.cp_created])]

\* An anonymous thread t1 holding c0 and c1.
SeedPuts ==
    << PutArgs(Cfg("t1"), Payload("c0"), EmptyMap, EmptyMap),
       PutArgs(Cfg("t1"), [Payload("c1") EXCEPT !.messages = <<LegacyTool>>],
               "source" :> "seed", EmptyMap) >>

\* What each process may put: p1 carries an owner or thread metadata, p2
\* carries neither or thread metadata under another key; their states,
\* metadata, parents and versions differ.
TxnInputs(p) ==
    IF p = "p1"
    THEN {PutArgs(cfg, [Payload("c1") EXCEPT !.parent_checkpoint_id = "c0",
                                              !.messages = <<HumanObj>>],
                  "source" :> "p1", "messages" :> 3) :
             cfg \in {[Cfg("t1") EXCEPT !.user_id = "u1"],
                      [Cfg("t1") EXCEPT !.metadata = "lang" :> "en"]}}
    ELSE {PutArgs(Cfg("t1"), [Payload(id) EXCEPT !.messages = <<ToolObj>>],
                  "source" :> "p2", "messages" :> 4) : id \in {"c1", "c2"}}
         \cup {PutArgs(Cfg(Absent), Payload("c1"), "source" :> "p2", EmptyMap),
               PutArgs([Cfg("t1") EXCEPT !.metadata = "plan" :> "pro"],
                       [Payload("c2") EXCEPT !.messages = <<ToolObj>>],
                       "source" :> "p2", "messages" :> 4)}

InitTxn ==
    /\ \E n \in {0, Len(SeedPuts)} :
          LET s == StoreAfter(SubSeq(SeedPuts, 1, n))
          IN /\ threads = s.threads
             /\ checkpoints = s.checkpoints
             /\ now = s.now
             /\ nextThreadPk = s.nextThreadPk
             /\ nextCpPk = s.nextCpPk
             /\ puts = s.puts
    /\ minted = 0
    /\ last = [op |-> "init"]
    /\ session = [chat_thread_id |-> Absent, chat_messages |-> <<>>]
    /\ tx = [p \in Procs |-> IdleTx]

NextTxn ==
    \/ \E p \in Procs : \E a \in TxnInputs(p) : TxnBegin(p, a)
    \/ \E p \in Procs : TxnThread(p)
    \/ \E p \in Procs : TxnAttach(p)
    \/ \E p \in Procs : TxnMerge(p)
    \/ \E p \in Procs : TxnParent(p)
    \/ \E p \in Procs : TxnUpsert(p)
    \/ \E p \in Procs : TxnTouch(p)
    \/ \E p \in Procs : TxnCommit(p)
    \/ \E p \in Procs : TxnFail(p)
    \/ \E p \in Procs : TxnDeadlock(p)
    \/ GetTuple(Cfg("t1"))
    \/ List(Cfg("t1"), EmptyMap, [kind |-> "none", t |-> 0], {})

SpecTxn == InitTxn /\ [][NextTxn]_vars

----------------------------------------------------------------------------
\* Vocabulary of the properties below.

PutKeyAt(i) == <<puts[i].args.cfg.thread_id, puts[i].cid>>

\* Index i is the most recent saved put of its (thread token, checkpoint id).
IsLastPutOfKey(i) == \A j \in DOMAIN puts : j > i => PutKeyAt(j) # PutKeyAt(i)

\* The stored rows of thread token `tok` with checkpoint id `cid`.
RowsOfKey(tok, cid) ==
    {r \in checkpoints :
        /\ r.checkpoint_id = cid
        /\ \E th \in threads : th.thread_id = tok /\ th.pk = r.thread}

\* The version a call is to store: the largest new version, else the
\* payload's own, else 1.
CallVersion(a) ==
    IF DOMAIN a.nv # {}
    THEN CHOOSE v \in Values(a.nv) : \A w \in Values(a.nv) : w <= v
    ELSE IF a.cp.version = {} THEN 1 ELSE CHOOSE v \in a.cp.version : TRUE

\* The parent a saved put i is to store: the row of the referenced id in the
\* same thread if an earlier put had saved one, else none.
CallParentOk(i, r) ==
    LET pid == puts[i].args.cp.parent_checkpoint_id
        tok == puts[i].args.cfg.thread_id
        had == \E k \in DOMAIN puts : k < i /\ PutKeyAt(k) = <<tok, pid>>
    IN IF pid # Absent /\ had
       THEN \E q \in RowsOfKey(tok, pid) : q.pk = r.parent
       ELSE r.parent = NoPk

\* C1: there is at most one checkpoint row per (thread, checkpoint_id), and
\* the row of a key holds the state, metadata, parent and version of the most
\* recent put of that key, however many puts of the key came before.
C1_OneRowPerKey ==
    /\ \A r1, r2 \in checkpoints :
          (r1.thread = r2.thread /\ r1.checkpoint_id = r2.checkpoint_id) => r1 = r2
    /\ \A i \in DOMAIN puts :
          IsLastPutOfKey(i) =>
             /\ Cardinality(RowsOfKey(PutKeyAt(i)[1], PutKeyAt(i)[2])) = 1
             /\ \A r \in RowsOfKey(PutKeyAt(i)[1], PutKeyAt(i)[2]) :
                   /\ r.state = ToJsonable(puts[i].args.cp)
                   /\ r.checkpoint_metadata = ToJsonableMap(puts[i].args.md)
                   /\ r.version = CallVersion(puts[i].args)
                   /\ CallParentOk(i, r)

\* Two puts of one key that differ in state, metadata, parent and version.
C1_Witness ==
    \E i, j \in DOMAIN puts :
       /\ i < j
       /\ PutKeyAt(i) = PutKeyAt(j)
       /\ IsLastPutOfKey(j)
       /\ puts[i].args.cp.messages # puts[j].args.cp.messages
       /\ puts[i].args.md # puts[j].args.md
       /\ CallVersion(puts[i].args) # CallVersion(puts[j].args)
       /\ puts[i].args.cp.parent_checkpoint_id # puts[j].args.cp.parent_checkpoint_id

----------------------------------------------------------------------------
\* Round trip put -> getTuple.

\* What a put of arguments `a` that was given checkpoint id `cid` reads back as.
RoundTrip(a, cid) ==
    [kind |-> "tuple",
     checkpoint |-> [Sanitize(ToJsonable(a.cp)) EXCEPT !.id = cid],
     metadata |-> ToJsonableMap(a.md)]

\* This step is a getTuple with no checkpoint id on the thread of the put
\* that was the call before it.
GetRightAfterPut ==
    /\ last.op = "put"
    /\ last.result.kind = "tuple"
    /\ last'.op = "get_tuple"
    /\ last'.cfg.thread_id = last.args.cfg.thread_id
    /\ last'.cfg.checkpoint_id = Absent

\* The row the put before this step wrote is the newest of its thread.
PutRowIsNewest ==
    \A r \in RowsOfKey(last.args.cfg.thread_id, last.result.checkpoint.id) :
       \A q \in checkpoints : (q.thread = r.thread /\ q # r) => q.created_at < r.created_at

\* C2 as stated: after every put (also one that reuses the id of a checkpoint
\* that already exists in the thread), a getTuple issued immediately
\* afterwards on the same thread with no checkpoint id returns
\* sanitize(to_jsonable(S)) merged with the assigned id, and to_jsonable(M).
C2_RoundTripEveryPut ==
    [][GetRightAfterPut => last'.result = RoundTrip(last.args, last.result.checkpoint.id)]_vars

\* C2 amended: the round trip holds for every put whose row is afterwards the
\* newest of its thread (a put that inserts a row, or a re-put of the newest
\* checkpoint); after a re-put of an older checkpoint, getTuple returns the
\* newest checkpoint of the thread, not the one just written.
C2_RoundTripNewest ==
    [][GetRightAfterPut =>
          IF PutRowIsNewest
          THEN last'.result = RoundTrip(last.args, last.result.checkpoint.id)
          ELSE /\ last'.result.kind = "tuple"
               /\ last'.result.checkpoint.id # last.result.checkpoint.id
               /\ \E r \in RowsOfKey(last.args.cfg.thread_id, last'.result.checkpoint.id) :
                     \A q \in checkpoints : q.thread = r.thread => q.created_at <= r.created_at
      ]_vars

\* A getTuple has returned the round trip of the most recent put, which was a
\* re-put of an existing id and whose state the sanitizer had to patch.
C2_Witness ==
    /\ last.op = "get_tuple"
    /\ last.cfg.checkpoint_id = Absent
    /\ puts # <<>>
    /\ LET e == puts[Len(puts)] IN
       /\ ~e.cp_created
       /\ e.args.cfg.thread_id = last.cfg.thread_id
       /\ last.result = RoundTrip(e.args, e.cid)
       /\ Sanitize(ToJsonable(e.args.cp)) # ToJsonable(e.args.cp)
       /\ ToJsonable(e.args.cp) # e.args.cp

----------------------------------------------------------------------------
\* Owner of a thread under put.

\* This step saved a put (the history grew by it).
PutSaved == Len(puts') = Len(puts) + 1

NewestPut == puts'[Len(puts')]

\* C4: a put carrying an owner id on an existing anonymous thread makes the
\* thread owned by that id, and a put on an owned thread leaves its owner as
\* it is, whatever owner id the put carries.
C4_AttachOnce ==
    [][PutSaved =>
          \A th \in threads :
             th.thread_id = NewestPut.args.cfg.thread_id =>
                \E th2 \in threads' :
                   /\ th2.pk = th.pk
                   /\ th2.thread_id = th.thread_id
                   /\ th2.user = IF th.user = Absent /\ NewestPut.args.cfg.user_id # Absent
                                 THEN NewestPut.args.cfg.user_id
                                 ELSE th.user
      ]_vars

\* An anonymous thread was attached to u1 by a put and a later put carried u2.
C4_Witness ==
    \E i, j, k \in DOMAIN puts :
       /\ i < j /\ j < k
       /\ puts[i].args.cfg.thread_id = "t1" /\ puts[i].args.cfg.user_id = Absent
       /\ puts[j].args.cfg.thread_id = "t1" /\ puts[j].args.cfg.user_id = "u1"
       /\ puts[k].args.cfg.thread_id = "t1" /\ puts[k].args.cfg.user_id = "u2"
       /\ \E th \in threads : th.thread_id = "t1" /\ th.user = "u1"

----------------------------------------------------------------------------
\* Latest checkpoint.

\* The index of the most recent put that created a row in thread `tok`.
IsNewestCreation(k, tok) ==
    /\ puts[k].cp_created
    /\ puts[k].args.cfg.thread_id = tok
    /\ \A m \in DOMAIN puts :
          (m > k /\ puts[m].args.cfg.thread_id = tok) => ~puts[m].cp_created

\* C7: getTuple with no checkpoint id returns the checkpoint with the greatest
\* created_at of the thread, which is the one created last, whatever re-puts
\* of older checkpoints happened after its creation.
C7_LatestWins ==
    (/\ last.op = "get_tuple"
     /\ last.cfg.checkpoint_id = Absent
     /\ \E k \in DOMAIN puts : puts[k].args.cfg.thread_id = last.cfg.thread_id)
    => /\ last.result.kind = "tuple"
       /\ \E r \in RowsOfKey(last.cfg.thread_id, last.result.checkpoint.id) :
             /\ \A q \in checkpoints : q.thread = r.thread => q.created_at <= r.created_at
             /\ last.result.metadata = r.checkpoint_metadata
       /\ \E k \in DOMAIN puts :
             /\ IsNewestCreation(k, last.cfg.thread_id)
             /\ last.result.checkpoint.id = puts[k].cid

\* c1 created, c2 created, c1 put again, and getTuple has returned c2.
C7_Witness ==
    /\ last.op = "get_tuple"
    /\ last.cfg.checkpoint_id = Absent
    /\ Len(puts) = 3
    /\ \A k \in 1..3 : puts[k].args.cfg.thread_id = last.cfg.thread_id
    /\ puts[1].cp_created /\ puts[2].cp_created /\ ~puts[3].cp_created
    /\ puts[3].cid = puts[1].cid
    /\ puts[3].args.cp.messages # puts[1].args.cp.messages
    /\ last.result.kind = "tuple"
    /\ last.result.checkpoint.id = puts[2].cid

----------------------------------------------------------------------------
\* Missing thread token on the write path.

----------------------------------------------------------------------------
\* Ownership across the checkpointer and the HTTP handlers.

\* C3: once a thread has an owner, no put, chat send or chat history request
\* changes that owner to another identity or clears it.
C3_OwnerNeverChanges ==
    [][\A th \in threads : th.user # Absent =>
          \A th2 \in threads' : th2.pk = th.pk => th2.user = th.user
      ]_vars

\* A request by one user has just named a thread that another user owned.
C3_Reassigned ==
    /\ last.op \in {"chat_send", "chat_history"}
    /\ last.user # Absent
    /\ \E th \in threads : th.thread_id = last.thread_id /\ th.user = last.user
    /\ \E i \in DOMAIN puts :
          /\ puts[i].args.cfg.thread_id = last.thread_id
          /\ puts[i].args.cfg.user_id \notin {Absent, last.user}

----------------------------------------------------------------------------
\* Not-found conditions on the read paths.

\* The stored rows of the thread with token `tok`.
RowsOfToken(tok) ==
    {r \in checkpoints : \E th \in threads : th.thread_id = tok /\ th.pk = r.thread}

----------------------------------------------------------------------------
\* list: restrictions and order.

\* The rows a list call is to return: those of the thread created strictly
\* before `before` when it is a timestamp, with the filter's version when the
\* filter names one.
ListWanted(cfg, filter, before) ==
    {r \in RowsOfToken(cfg.thread_id) :
        /\ before.kind = "iso" => r.created_at < before.t
        /\ "version" \in DOMAIN filter => r.version = filter["version"]}

\* C10: list without limit returns exactly the thread's checkpoints that
\* satisfy the restrictions, each once, newest first (a malformed `before`
\* restricts nothing); after put c1 with new versions {messages: 3} and put
\* c2 (parent c1) with {messages: 4} on t1, list(t1) is [c2, c1] and the
\* stored versions are 4 and 3.
C10_ListExact ==
    /\ (last.op = "list" /\ last.limit = {}) =>
          /\ last.result.kind = "list"
          /\ LET items == last.result.items
                 want  == ListWanted(last.cfg, last.filter, last.before)
             IN /\ Len(items) = Cardinality(want)
                /\ {items[i].checkpoint.id : i \in DOMAIN items}
                      = {r.checkpoint_id : r \in want}
                /\ \A i, j \in DOMAIN items : i < j =>
                      \A r, q \in want :
                         (r.checkpoint_id = items[i].checkpoint.id
                            /\ q.checkpoint_id = items[j].checkpoint.id)
                         => r.created_at >= q.created_at /\ r # q
    /\ (/\ last.op = "list"
        /\ last.cfg = Cfg("t1") /\ last.filter = EmptyMap
        /\ last.before.kind = "none" /\ last.limit = {}
        /\ puts = << [args |-> PutArgs(Cfg("t1"), Payload("c1"), EmptyMap, "messages" :> 3),
                      cid |-> "c1", cp_created |-> TRUE],
                     [args |-> PutArgs(Cfg("t1"),
                                       [Payload("c2") EXCEPT !.parent_checkpoint_id = "c1"],
                                       EmptyMap, "messages" :> 4),
                      cid |-> "c2", cp_created |-> TRUE] >>)
       => /\ Len(last.result.items) = 2
          /\ last.result.items[1].checkpoint.id = "c2"
          /\ last.result.items[2].checkpoint.id = "c1"
          /\ {r.version : r \in RowsOfKey("t1", "c2")} = {4}
          /\ {r.version : r \in RowsOfKey("t1", "c1")} = {3}

\* list(t1) has answered [c2, c1] right after the two puts of the scenario.
C10_Witness ==
    /\ last.op = "list"
    /\ last.cfg = Cfg("t1") /\ last.filter = EmptyMap
    /\ last.before.kind = "none" /\ last.limit = {}
    /\ Len(puts) = 2
    /\ puts[1].args.nv = "messages" :> 3 /\ puts[1].cid = "c1"
    /\ puts[2].args.nv = "messages" :> 4 /\ puts[2].cid = "c2"
    /\ puts[2].args.cp.parent_checkpoint_id = "c1"
    /\ Len(last.result.items) = 2
    /\ last.result.items[1].checkpoint.id = "c2"

----------------------------------------------------------------------------
\* put as one transaction.

\* The effects of the put of process record `t` in tables `ths`, `cps`: its
\* checkpoint row with its state, metadata and version, in a thread that
\* carries its updated_at.
EffectsIn(ths, cps, t) ==
    \E th \in ths :
        /\ th.thread_id = t.args.cfg.thread_id
        /\ th.updated_at = t.touched
        /\ \E r \in cps :
              /\ r.thread = th.pk
              /\ r.checkpoint_id = ExtractCheckpointId(t.args.cp, t.args.cfg, Absent)
              /\ r.state = ToJsonable(t.args.cp)
              /\ r.checkpoint_metadata = ToJsonableMap(t.args.md)
              /\ r.version = CallVersion(t.args)

\* A tuple handed to a reader that carries the metadata of the put of
\* process p comes from a committed put whose thread update is in the store.
ReadIsWhole(tuple, p) ==
    (tx'[p].pc # "idle" /\ tuple.metadata = ToJsonableMap(tx'[p].args.md)) =>
        /\ tx'[p].pc = "done"
        /\ \E th \in threads' :
              /\ th.thread_id = tx'[p].args.cfg.thread_id
              /\ th.updated_at >= tx'[p].touched

\* C5: the tables change only when a put commits, and then the checkpoint
\* row and the thread update of that put arrive together; no row written by
\* a put that failed, was aborted or is still running is in the tables; and
\* what getTuple and list return while puts run is data of committed puts.
C5_AllOrNothing ==
    [][ /\ (threads' # threads \/ checkpoints' # checkpoints) =>
              \E p \in Procs :
                  /\ tx[p].pc = "commit" /\ tx'[p].pc = "done"
                  /\ EffectsIn(threads', checkpoints', tx'[p])
        /\ \A p \in Procs : tx'[p].pc # "done" =>
              /\ tx'[p].wrote_threads \cap threads' = {}
              /\ tx'[p].wrote_cps \cap checkpoints' = {}
        /\ (last'.op = "get_tuple" /\ last'.result.kind = "tuple") =>
              \A p \in Procs : ReadIsWhole(last'.result, p)
        /\ last'.op = "list" =>
              \A i \in DOMAIN last'.result.items, p \in Procs :
                  ReadIsWhole(last'.result.items[i], p)
      ]_vars

\* One put failed after it had written its thread row and its checkpoint
\* row, the other has committed, and getTuple has returned a checkpoint.
C5_Witness ==
    \E p, q \in Procs :
        /\ tx[p].pc = "failed"
        /\ tx[p].wrote_threads # {} /\ tx[p].wrote_cps # {}
        /\ tx[q].pc = "done"
        /\ last.op = "get_tuple"
        /\ last.result.kind = "tuple"

----------------------------------------------------------------------------
\* Two concurrent puts of one key.

SameKey(p, q) ==
    /\ p # q
    /\ tx[p].pc # "idle" /\ tx[q].pc # "idle"
    /\ tx[p].args.cfg.thread_id = tx[q].args.cfg.thread_id
    /\ TxnCid(p) = TxnCid(q)

\* When both puts of one key have committed, the key has exactly one row and
\* its state, metadata, parent and version are those of the put that
\* committed last.
LastCommitWins ==
    \A p, q \in Procs :
        (SameKey(p, q) /\ tx[p].pc = "done" /\ tx[q].pc = "done") =>
            LET w    == puts[Len(puts)]
                rows == RowsOfKey(w.args.cfg.thread_id, w.cid)
            IN /\ Cardinality(rows) = 1
               /\ \A r \in rows :
                     /\ r.state = ToJsonable(w.args.cp)
                     /\ r.checkpoint_metadata = ToJsonableMap(w.args.md)
                     /\ r.version = CallVersion(w.args)
                     /\ CallParentOk(Len(puts), r)

\* C6: two concurrent puts of one (thread, checkpoint id) both complete in
\* every interleaving (neither is aborted), and afterwards the key has one
\* row whose fields are all those of the put that committed last.
C6_ConcurrentPutsComplete ==
    /\ \A p, q \in Procs : SameKey(p, q) => tx[p].pc # "deadlock"
    /\ LastCommitWins

----------------------------------------------------------------------------
\* The stored version.

\* C11: the row of a key stores, from the most recent put of that key, the
\* largest of the new versions when there are any, else the version the
\* payload carries, else 1; a re-put replaces the version stored before.
C11_StoredVersion ==
    \A i \in DOMAIN puts :
        IsLastPutOfKey(i) =>
            \A r \in RowsOfKey(PutKeyAt(i)[1], PutKeyAt(i)[2]) :
                LET nv == puts[i].args.nv
                    pv == puts[i].args.cp.version
                IN /\ DOMAIN nv # {} =>
                         /\ \E k \in DOMAIN nv : r.version = nv[k]
                         /\ \A k \in DOMAIN nv : nv[k] <= r.version
                   /\ (DOMAIN nv = {} /\ pv # {}) => r.version \in pv
                   /\ (DOMAIN nv = {} /\ pv = {}) => r.version = 1

\* A key was put with new versions {messages: 3}, then put again with
\* payload version 2 and no new versions, and stores 2; another key was put
\* with new versions {messages: 3, branch: 5} and stores 5.
C11_Witness ==
    /\ \E i, j \in DOMAIN puts :
          /\ i < j
          /\ PutKeyAt(i) = PutKeyAt(j)
          /\ IsLastPutOfKey(j)
          /\ puts[i].args.nv = "messages" :> 3
          /\ DOMAIN puts[j].args.nv = {}
          /\ puts[j].args.cp.version = {2}
          /\ \E r \in RowsOfKey(PutKeyAt(j)[1], PutKeyAt(j)[2]) : r.version = 2
    /\ \E k \in DOMAIN puts :
          /\ Cardinality(DOMAIN puts[k].args.nv) = 2
          /\ \E r \in RowsOfKey(PutKeyAt(k)[1], PutKeyAt(k)[2]) : r.version = 5

----------------------------------------------------------------------------
\* One thread per thread_id.

\* C12: no two thread rows share a thread_id, also when two puts resolve a
\* token that does not exist yet at the same time, and no step changes the
\* thread_id of a row.
C12_OneThreadPerToken ==
    [][ /\ \A r1, r2 \in threads' : r1.thread_id = r2.thread_id => r1 = r2
        /\ \A th \in threads : \A th2 \in threads' :
              th2.pk = th.pk => th2.thread_id = th.thread_id
      ]_vars

\* No thread is stored, one put has inserted the thread of its token and has
\* not committed, and the other put, resolving the same token, waits for it.
C12_Witness ==
    \E p, q \in Procs :
        /\ p # q
        /\ threads = {}
        /\ tx[q].created /\ tx[q].wthreads # {}
        /\ tx[p].pc = "thread"
        /\ tx[p].args.cfg.thread_id = tx[q].args.cfg.thread_id
        /\ Needs(p) \cap tx[q].locks # {}

----------------------------------------------------------------------------
\* Deleting threads.

\* C13: every checkpoint belongs to a stored thread; and after an
\* authenticated clear request that succeeds, the thread it named (the
\* caller's), or without thread_id every chatbot thread of the caller, is
\* gone with its checkpoints, and getTuple and list on the token of each
\* answer absent and the empty sequence.
C13_DeleteCascades ==
    [][ /\ \A r \in checkpoints' : \E th \in threads' : th.pk = r.thread
        /\ (/\ last'.op = "clear"
            /\ last' # last
            /\ last'.user # Absent
            /\ last'.result.status = 200) =>
              \A th \in threads :
                 (/\ th.user = last'.user
                  /\ IF last'.thread_id = Absent
                     THEN th.workflow_type = "chatbot"
                     ELSE th.thread_id = last'.thread_id) =>
                    /\ \A t2 \in threads' : t2.thread_id # th.thread_id
                    /\ \A r \in checkpoints' : r.thread # th.pk
                    /\ GetTupleOutcomes(threads', checkpoints', Cfg(th.thread_id))
                          = {[kind |-> "absent"]}
                    /\ ListOutcome(threads', checkpoints', Cfg(th.thread_id), EmptyMap,
                                   [kind |-> "none", t |-> 0], {})
                          = [kind |-> "list", items |-> <<>>]
      ]_vars

\* A clear request without thread_id has deleted the caller's chatbot
\* threads, which held three checkpoints, and left the caller's thread of
\* another workflow; getTuple on a deleted token has answered absent.
C13_Witness ==
    /\ last.op = "get_tuple"
    /\ last.result = [kind |-> "absent"]
    /\ Len(puts) = 3
    /\ \E i, j \in DOMAIN puts :
          /\ puts[i].args.cfg.thread_id = last.cfg.thread_id
          /\ puts[j].args.cfg.thread_id = last.cfg.thread_id
          /\ puts[i].cid # puts[j].cid
    /\ \E th \in threads : th.user = "u1" /\ th.workflow_type # "chatbot"
    /\ checkpoints # {}
    /\ \A th \in threads : th.thread_id # last.cfg.thread_id

----------------------------------------------------------------------------
\* Deleting a checkpoint that has children.

\* C14: every parent reference points at a stored checkpoint; and when a
\* checkpoint is deleted, each checkpoint that had it as parent stays stored,
\* unchanged but for its parent reference, which is cleared, and getTuple
\* with the child's own id returns the child.
C14_ParentSurvival ==
    [][ /\ \A r \in checkpoints' :
              r.parent # NoPk => \E q \in checkpoints' : q.pk = r.parent
        /\ (last'.op = "delete_checkpoint" /\ last' # last) =>
              \A child \in checkpoints :
                 child.parent \in last'.pks =>
                    /\ [child EXCEPT !.parent = NoPk] \in checkpoints'
                    /\ \A c2 \in checkpoints' : c2.pk = child.pk => c2.parent = NoPk
                    /\ \A res \in GetTupleOutcomes(threads', checkpoints',
                                     [Cfg(last'.thread_id) EXCEPT
                                         !.checkpoint_id = child.checkpoint_id]) :
                          /\ res.kind = "tuple"
                          /\ res.checkpoint.id = child.checkpoint_id
                          /\ res.checkpoint.messages = Sanitize(child.state).messages
      ]_vars

\* c1 was put, c2 was put with parent c1, c1 has just been deleted, and c2
\* is stored without parent.
C14_Witness ==
    /\ last.op = "delete_checkpoint"
    /\ last.checkpoint_id = "c1"
    /\ \E i, j \in DOMAIN puts :
          /\ i < j
          /\ puts[i].cid = "c1" /\ puts[i].args.cfg.thread_id = last.thread_id
          /\ puts[j].cid = "c2" /\ puts[j].args.cfg.thread_id = last.thread_id
          /\ puts[j].args.cp.parent_checkpoint_id = "c1"
    /\ \E r \in RowsOfKey(last.thread_id, "c2") : r.parent = NoPk
    /\ RowsOfKey(last.thread_id, "c1") = {}

----------------------------------------------------------------------------
\* Reads write nothing.

\* C15: a getTuple, get or list step leaves every thread row and every
\* checkpoint row as it was and creates no thread, also when the sanitizer
\* patches what it returns.
C15_ReadsWriteNothing ==
    [][ last'.op \in {"get_tuple", "list"} =>
           /\ threads' = threads
           /\ checkpoints' = checkpoints
           /\ nextThreadPk' = nextThreadPk
           /\ nextCpPk' = nextCpPk
      ]_vars

\* getTuple has returned a tool message patched with "legacy_missing_id"
\* while the stored row still holds that message without tool_call_id.
C15_Witness ==
    /\ last.op = "get_tuple"
    /\ last.result.kind = "tuple"
    /\ \E i \in DOMAIN last.result.checkpoint.messages :
          /\ last.result.checkpoint.messages[i].tool_call_id = "legacy_missing_id"
          /\ \E r \in RowsOfKey(last.cfg.thread_id, last.result.checkpoint.id) :
                /\ r.state.messages[i].type = "tool"
                /\ r.state.messages[i].tool_call_id = Absent

----------------------------------------------------------------------------
\* The sanitizer as a function.

\* C16: sanitize gives, position by position, a copy with tool_call_id =
\* "legacy_missing_id" for each tool message without tool_call_id and the
\* message itself for every other one, changes nothing else of the state,
\* returns the state it was given when no message needs the patch, and
\* applied to its own result changes nothing.
C16_SanitizeExact ==
    last.op = "sanitize" =>
        LET s == last.arg
            r == last.result
            lacks(m) == m.form = "dict" /\ m.type = "tool" /\ m.tool_call_id = Absent
        IN /\ Len(r.messages) = Len(s.messages)
           /\ \A i \in DOMAIN s.messages :
                 IF lacks(s.messages[i])
                 THEN /\ r.messages[i].tool_call_id = "legacy_missing_id"
                      /\ [r.messages[i] EXCEPT !.tool_call_id = Absent] = s.messages[i]
                 ELSE r.messages[i] = s.messages[i]
           /\ [r EXCEPT !.messages = s.messages] = s
           /\ (\A i \in DOMAIN s.messages : ~lacks(s.messages[i])) =>
                 (r = s /\ ~last.copied)
           /\ last.again = r

\* sanitize was applied to a tool message without tool_call_id, a tool
\* message with one, and a human message, in that order.
C16_Witness ==
    /\ last.op = "sanitize"
    /\ Len(last.arg.messages) = 3
    /\ last.arg.messages[1].type = "tool" /\ last.arg.messages[1].tool_call_id = Absent
    /\ last.arg.messages[2].type = "tool" /\ last.arg.messages[2].tool_call_id = "call-1"
    /\ last.arg.messages[3].type = "human"
    /\ last.result.messages[1].tool_call_id = "legacy_missing_id"
    /\ last.result.messages[2] = last.arg.messages[2]
    /\ last.copied

----------------------------------------------------------------------------
\* The history projection.

\* C17: no entry of a projected history has a content that, lower-cased,
\* contains one of the tool-failure indicators, whatever the raw messages
\* held.
C17_NoNoiseInHistory ==
    last.op = "project" =>
        \A i \in DOMAIN last.result :
            \A ind \in NoiseIndicators :
                ~Contains(Lower(Chars(last.result[i].content)), ind)

\* A raw list with an upper-case quota failure next to a real turn was
\* projected, and only the real turn came out.
C17_Witness ==
    /\ last.op = "project"
    /\ Len(last.arg) = 2
    /\ last.arg[1].content = "hi"
    /\ last.arg[2].content = "QUOTA EXCEEDED, retry later"
    /\ last.result = <<[role |-> "user", content |-> "hi"]>>

----------------------------------------------------------------------------
\* The failing agent run.

HoldsApology(cps) ==
    \E cp \in cps : \E i \in DOMAIN cp.state.messages :
        cp.state.messages[i].content = Apology

FailingSends == {i \in SendInputs : ~i.agent_ok}

----------------------------------------------------------------------------
\* The serializer as a function.

\* C19: to_jsonable applied to its own result gives that result again, for
\* messages, layered and plain mappings, lists, tuples, sets, timestamps and
\* scalars.
C19_ToJsonableIdempotent ==
    last.op = "to_jsonable" => last.again = last.result

\* to_jsonable was applied to a layered mapping whose value is a tuple of a
\* timestamp and an opaque object, and gave a plain mapping holding a list
\* of two strings.
C19_Witness ==
    /\ last.op = "to_jsonable"
    /\ last.arg.tag = "chainmap"
    /\ last.result.tag = "dict"
    /\ "writes" \in DOMAIN last.result.map
    /\ last.result.map["writes"] =
          [tag |-> "list", items |-> <<[tag |-> "atom", val |-> "iso(1)"],
                                       [tag |-> "atom", val |-> "str(X)"]>>]

----------------------------------------------------------------------------
\* The shape of the parent references.

\* The row a parent reference points at.
ParentRows(cp) == {r \in checkpoints : r.pk = cp.parent}

\* Whether following parent references from cp ends at a row without parent
\* within n steps.
RECURSIVE ReachesRoot(_, _)
ReachesRoot(cp, n) ==
    \/ cp.parent = NoPk
    \/ /\ n > 0
       /\ \E r \in ParentRows(cp) : ReachesRoot(r, n - 1)

\* C20: after any sequence of puts, every checkpoint's parent is a row of
\* the same thread, and following parent references from any checkpoint
\* ends at a checkpoint without parent, so that no checkpoint is its own
\* parent or ancestor.
C20_ParentsFormForest ==
    \A cp \in checkpoints :
        /\ \A r \in ParentRows(cp) : r.thread = cp.thread
        /\ cp.parent # NoPk => ParentRows(cp) # {}
        /\ ReachesRoot(cp, Cardinality(checkpoints))

\* A put made a checkpoint its own parent.
C20_SelfParent ==
    /\ last.op = "put"
    /\ \E cp \in checkpoints : cp.parent = cp.pk

----------------------------------------------------------------------------
\* The parent a put links.

\* C21: every put succeeds, and the row it saves has as parent the row that
\* carried the referenced id in the same thread when the put began, or no
\* parent when the payload names none or the thread held no such row; a row
\* of another thread is never linked.
C21_ParentResolved ==
    [][PutSaved =>
          LET a     == NewestPut.args
              pid   == a.cp.parent_checkpoint_id
              cands == {r \in checkpoints :
                          /\ r.checkpoint_id = pid
                          /\ \E th \in threads :
                                th.thread_id = a.cfg.thread_id /\ th.pk = r.thread}
              saved == {r \in checkpoints' :
                          /\ r.checkpoint_id = NewestPut.cid
                          /\ \E th \in threads' :
                                th.thread_id = a.cfg.thread_id /\ th.pk = r.thread}
          IN /\ last'.result.kind = "tuple"
             /\ saved # {}
             /\ \A r \in saved :
                   /\ IF pid # Absent /\ cands # {}
                      THEN \E q \in cands : r.parent = q.pk
                      ELSE r.parent = NoPk
                   /\ \A q \in checkpoints' : q.pk = r.parent => q.thread = r.thread
      ]_vars

\* Thread t1 holds c1 and its child c2; a put on t2 that names c1 as parent
\* has just been saved without parent.
C21_Witness ==
    /\ last.op = "put"
    /\ last.result.kind = "tuple"
    /\ last.args.cfg.thread_id = "t2"
    /\ last.args.cp.parent_checkpoint_id = "c1"
    /\ \A r \in RowsOfKey("t2", "c2") : r.parent = NoPk
    /\ RowsOfKey("t2", "c2") # {}
    /\ \E c \in RowsOfKey("t1", "c2") : \E q \in RowsOfKey("t1", "c1") : c.parent = q.pk

----------------------------------------------------------------------------
\* list: the limit.

\* Whether the last call, a list with limit n, returned the n newest rows of
\* the filtered set (all of them when there are fewer), newest first.
LimitedTo(n) ==
    LET items == last.result.items
        want  == ListWanted(last.cfg, last.filter, last.before)
        got   == {r \in want : \E i \in DOMAIN items : items[i].checkpoint.id = r.checkpoint_id}
    IN /\ last.result.kind = "list"
       /\ Len(items) <= n
       /\ Len(items) = IF Cardinality(want) < n THEN Cardinality(want) ELSE n
       /\ Cardinality(got) = Len(items)
       /\ \A r \in got : \A q \in want \ got : q.created_at < r.created_at
       /\ \A i, j \in DOMAIN items : i < j =>
             \A r, q \in got :
                (r.checkpoint_id = items[i].checkpoint.id
                   /\ q.checkpoint_id = items[j].checkpoint.id)
                => r.created_at > q.created_at

\* The limit of the last call, a list call with a limit.
GivenLimit == CHOOSE n \in last.limit : TRUE

\* list with a limit of at least 1 returns the n newest rows.
PositiveLimitTruncates ==
    (last.op = "list" /\ last.limit # {} /\ GivenLimit >= 1) => LimitedTo(GivenLimit)

\* C22: a list call with limit n >= 0 returns at most n entries, the n
\* newest checkpoints of the filtered set; with limit 0 it returns the empty
\* sequence.
C22_LimitTruncates ==
    (last.op = "list" /\ last.limit # {}) =>
        /\ LimitedTo(GivenLimit)
        /\ GivenLimit = 0 => last.result.items = <<>>

\* list with limit 0 has just returned two checkpoints.
C22_LimitZeroReturnsAll ==
    /\ last.op = "list"
    /\ last.limit = {0}
    /\ last.filter = EmptyMap
    /\ Len(last.result.items) = 2

----------------------------------------------------------------------------
\* Re-put and the order of a thread's checkpoints.

\* The checkpoint ids list returns for thread token `tok` on the given
\* tables, without restrictions, in the order returned.
ListedIds(ths, cps, tok) ==
    LET o == ListOutcome(ths, cps, Cfg(tok), EmptyMap, [kind |-> "none", t |-> 0], {})
    IN [i \in DOMAIN o.items |-> o.items[i].checkpoint.id]

\* The checkpoint ids getTuple may return as latest of thread token `tok`.
LatestIds(ths, cps, tok) ==
    {IF o.kind = "tuple" THEN o.checkpoint.id ELSE Absent :
        o \in GetTupleOutcomes(ths, cps, Cfg(tok))}

\* C23: a put on an existing (thread, checkpoint_id) leaves created_at of
\* that row, as of every row, as it was; list of the thread returns the same
\* ids in the same order as before the put, and getTuple the same latest id.
C23_RePutKeepsOrder ==
    [][(PutSaved /\ ~NewestPut.cp_created) =>
          LET tok == NewestPut.args.cfg.thread_id IN
          /\ \A r \in checkpoints :
                \E q \in checkpoints' : q.pk = r.pk /\ q.created_at = r.created_at
          /\ Cardinality(checkpoints') = Cardinality(checkpoints)
          /\ ListedIds(threads', checkpoints', tok) = ListedIds(threads, checkpoints, tok)
          /\ LatestIds(threads', checkpoints', tok) = LatestIds(threads, checkpoints, tok)
      ]_vars

\* c1 has just been put again in a thread where c2 was created after it;
\* c2 is still listed first.
C23_Witness ==
    /\ last.op = "put"
    /\ Len(puts) = 3
    /\ puts[3].cid = "c1" /\ ~puts[3].cp_created
    /\ puts[3].args.cfg.thread_id = "t1"
    /\ ListedIds(threads, checkpoints, "t1") = <<"c2", "c1">>
    /\ LatestIds(threads, checkpoints, "t1") = {"c2"}

----------------------------------------------------------------------------
\* Thread metadata over a sequence of puts.

\* The puts made on thread token `tok`, and those of them that supplied key k.
PutsOn(tok) == {i \in DOMAIN puts : puts[i].args.cfg.thread_id = tok}

PutsSupplying(tok, k) == {i \in PutsOn(tok) : k \in DOMAIN puts[i].args.cfg.metadata}

\* C24: after any sequence of puts, a thread's metadata has exactly the keys
\* supplied by the put that created it and by the later puts, none removed,
\* each with the value (in its JSON form) of the most recent put that
\* supplied it; a put without metadata therefore changes nothing of it.
C24_MetadataMerged ==
    \A th \in threads :
        LET keys == UNION {DOMAIN puts[i].args.cfg.metadata : i \in PutsOn(th.thread_id)}
        IN /\ DOMAIN th.metadata = keys
           /\ \A k \in keys :
                 LET i == SetMax(PutsSupplying(th.thread_id, k))
                 IN th.metadata[k] = ToJsonableAtom(puts[i].args.cfg.metadata[k])

\* Thread t1 was created with lang = en, then given plan = pro, then
\* lang = fr: it holds both keys, lang with the later value.
C24_Witness ==
    /\ Len(puts) = 3
    /\ puts[1].args.cfg.metadata = "lang" :> "en"
    /\ puts[2].args.cfg.metadata = "plan" :> "pro"
    /\ puts[3].args.cfg.metadata = "lang" :> "fr"
    /\ \E th \in threads :
          /\ th.thread_id = "t1"
          /\ th.metadata = ("lang" :> "fr") @@ ("plan" :> "pro")

----------------------------------------------------------------------------
\* The history of the latest checkpoint.

\* The role the history is to give a message of type tag `ty`.
RoleWanted(ty) ==
    CASE ty \in {"human", "user"}   -> "user"
      [] ty \in {"ai", "assistant"} -> "assistant"
      [] OTHER                      -> "user"

\* The positions of `msgs` that are to appear in the history: content
\* present, not empty, without error indicator.
KeptPositions(msgs) ==
    {i \in DOMAIN msgs :
        /\ msgs[i].content # Absent /\ msgs[i].content # ""
        /\ ~IsNoise(msgs[i].content)}

----------------------------------------------------------------------------
\* The thread_id given to the constructor.

----------------------------------------------------------------------------
\* Concurrent puts and the thread row.

\* Both processes have committed a put on thread token `tok`, which existed
\* before either began.
BothCommittedOn(tok) ==
    /\ \A p \in Procs : tx[p].pc = "done" /\ tx[p].args.cfg.thread_id = tok
    /\ Len(puts) = Len(SeedPuts) + 2

\* C27: when a put carrying an owner id and a put carrying none have both
\* committed on the same existing anonymous thread, the thread is owned,
\* whatever the interleaving.
C27_OwnerSurvivesConcurrentPut ==
    (/\ BothCommittedOn("t1")
     /\ \E p, q \in Procs :
           /\ ~Falsy(tx[p].args.cfg.user_id)
           /\ Falsy(tx[q].args.cfg.user_id))
    => \A th \in ThreadsByToken(threads, "t1") : th.user # Absent

\* Both puts have committed, one carried owner u1, and the thread has no
\* owner.
C27_OwnerLost ==
    /\ BothCommittedOn("t1")
    /\ tx["p1"].args.cfg.user_id = "u1"
    /\ tx["p2"].args.cfg.user_id = Absent
    /\ \E th \in ThreadsByToken(threads, "t1") : th.user = Absent


\* C28: when two puts that supply thread metadata under disjoint keys have
\* both committed on the same existing thread, the thread's metadata holds
\* the keys of both, whatever the interleaving.
C28_MetadataOfBothSurvives ==
    (/\ BothCommittedOn("t1")
     /\ \A p \in Procs : DOMAIN tx[p].args.cfg.metadata # {}
     /\ DOMAIN tx["p1"].args.cfg.metadata \cap DOMAIN tx["p2"].args.cfg.metadata = {})
    => \A th \in ThreadsByToken(threads, "t1") :
          \A p \in Procs : DOMAIN tx[p].args.cfg.metadata \subseteq DOMAIN th.metadata

\* Both puts have committed, one supplied lang and the other plan, and the
\* thread's metadata holds plan only.
C28_MetadataLost ==
    /\ BothCommittedOn("t1")
    /\ tx["p1"].args.cfg.metadata = "lang" :> "en"
    /\ tx["p2"].args.cfg.metadata = "plan" :> "pro"
    /\ \E th \in ThreadsByToken(threads, "t1") : th.metadata = "plan" :> "pro"

----------------------------------------------------------------------------
\* Authenticated send without thread_id.

\* C29: an authenticated chat send that names no thread is answered with
\* status 200 and the token of a chatbot thread owned by the caller, in
\* every reachable state, also when the caller owns several chatbot threads.
C29_NoTokenSendResolves ==
    (/\ last.op = "chat_send"
     /\ last.user # Absent
     /\ Falsy(last.thread_id)
     /\ ~Falsy(last.message))
    => /\ last.result.status = 200
       /\ Cardinality({th \in ChatbotThreadsOf(threads, last.user) :
                          th.thread_id = last.result.thread_id}) = 1

\* The caller owns two chatbot threads and the send without thread_id has
\* just been answered with status 500.
C29_ServerError ==
    /\ last.op = "chat_send"
    /\ last.user = "u1"
    /\ Falsy(last.thread_id)
    /\ last.result.status = 500
    /\ last.result.response = "MultipleObjectsReturned"
    /\ Cardinality(ChatbotThreadsOf(threads, "u1")) = 2

----------------------------------------------------------------------------
\* The session's chat_messages.

\* `kept` is the end of `all`: the same entries in the same order.
IsTailOf(kept, all) ==
    /\ Len(kept) <= Len(all)
    /\ \A k \in 1..Len(kept) : kept[k] = all[Len(all) - Len(kept) + k]

\* C30: the session's chat_messages never holds more than 20 entries; an
\* answered anonymous send leaves in it the most recent entries, the
\* request's two included, in the order they were appended (all of them when
\* they are at most 20); a request without message leaves it as it was.
C30_SessionKeepsLatest ==
    /\ [](Len(session.chat_messages) <= 20)
    /\ [][\A i \in SessionInputs :
            ChatSend(Absent, Absent, i.message, i.agent_ok, "hello!") =>
                LET before == session.chat_messages
                    after  == session'.chat_messages
                    all    == before \o <<[role |-> "user", content |-> i.message],
                                          [role |-> "assistant",
                                           content |-> last'.result.response]>>
                IN IF Falsy(i.message)
                   THEN /\ last'.result.status = 400
                        /\ after = before
                   ELSE /\ last'.result.status = 200
                        /\ IsTailOf(after, all)
                        /\ Len(after) = IF Len(all) <= 20 THEN Len(all) ELSE 20]_vars

\* A session that held 18 entries has seen three more answered exchanges and
\* holds 20: the two oldest exchanges were dropped, the three new ones are
\* the last six entries; a request without message was then rejected.
C30_Witness ==
    /\ last.op = "chat_send"
    /\ last.user = Absent
    /\ last.result.status = 400
    /\ now = 4
    /\ Len(session.chat_messages) = 20
    /\ session.chat_messages[14].content = Apology
    /\ session.chat_messages[15] = [role |-> "user", content |-> "hello"]
    /\ session.chat_messages[16] = [role |-> "assistant", content |-> "hello!"]
    /\ session.chat_messages[17] = [role |-> "user", content |-> "hi"]
    /\ session.chat_messages[18] = [role |-> "assistant", content |-> Apology]
    /\ session.chat_messages[19] = [role |-> "user", content |-> "hello"]
    /\ session.chat_messages[20] = [role |-> "assistant", content |-> "hello!"]

====
